---- MODULE Spec2Model ----
(***************************************************************************)
(* ScheduleService (src/app/services/schedule.service.ts): the weekday and *)
(* time-slot catalogs, the weekly grid builder, the field validator and    *)
(* the statistics aggregator; AdminComponent (src/unnamed/part_000): its   *)
(* lists, modals, repository calls and notifications.                      *)
(*                                                                         *)
(* JavaScript values are modelled as follows.                              *)
(*  - the payload of validateScheduleData and the failures of a request    *)
(*    are functions from their own property names to values;               *)
(*  - the objects that formatWeeklyGrid reads and writes have an id, a     *)
(*    prototype and own properties, and a read or write follows the        *)
(*    prototype chain into the builtin objects (Builtins);                 *)
(*  - null and undefined are the records Null and Undefined;               *)
(*  - a primitive payload value is tagged: Num(n) or Str(s);               *)
(*  - a string is a TLA+ string; where the code looks inside a string      *)
(*    (comparison, regular expression, date parsing) the characters come   *)
(*    from Chars and their UTF-16 code units from Code;                    *)
(*  - a number of hours is an IEEE 754 double, kept as sign and magnitude  *)
(*    in limbs (NumberDivide, NumberAdd).                                  *)
(***************************************************************************)
EXTENDS Integers, Sequences, FiniteSets, TLC

VARIABLES
    schedules,      \* argument list of formatWeeklyGrid
    gridResult,     \* <<>> before the call, <<grid>> after it returned
    realm,          \* the builtin objects, and the records of the list that calls have written to, by id
    scheduleData,   \* argument of validateScheduleData
    validation,     \* <<>> before the call, <<[isValid, errors]>> after
    serverSchedules,\* list the repository answers GET /schedules with
    inFlight,       \* number of GET /schedules requests not answered yet
    delivered,      \* <<>> or the latest notification a subscriber of getScheduleStatistics got
    argStart,      \* first argument of calculateDuration
    argEnd,        \* second argument of calculateDuration
    durationResult, \* <<>> before the call, <<hours>> (a double) after it returned
    timeSlots,      \* the array this.TIME_SLOTS, entry by entry
    daysOfWeek,     \* the array this.DAYS_OF_WEEK, entry by entry
    returnedSlots,  \* <<>> or <<the array a caller got from getTimeSlots>>
    returnedDays,   \* <<>> or <<the array a caller got from getDaysOfWeek>>
    callerSteps,    \* number of changes callers have made through returned catalogs
    ready,          \* AdminComponent: ngOnInit has run
    destroyed,      \* AdminComponent: ngOnDestroy has run (destroy$ has emitted and completed)
    activeTab,      \* AdminComponent.activeTab
    loading,        \* AdminComponent.loading (dashboard)
    pageError,      \* AdminComponent.error
    dashboardData,  \* AdminComponent.adminDashboardData and chartData
    lists,          \* AdminComponent.teachers, students, classes, subjects
    listLoading,    \* AdminComponent.teachersLoading, studentsLoading, classesLoading
    admins,         \* AdminComponent.admins
    adminsLoading,  \* AdminComponent.adminsLoading
    adminTimers,    \* number of setTimeout callbacks of loadAdmins not run yet
    modals,         \* AdminComponent.teacherModal, studentModal, classModal, adminModal
    pending,        \* repository calls of the component not answered yet
    issued,         \* number of repository calls the component has sent
    notifications,  \* number of NotificationService.error and .success calls
    userBudget      \* number of handlers the user may still trigger

gridVars == <<schedules, gridResult>>
validateVars == <<scheduleData, validation>>
statsVars == <<serverSchedules, inFlight, delivered>>
durationVars == <<argStart, argEnd, durationResult>>
catalogVars == <<timeSlots, daysOfWeek, returnedSlots, returnedDays, callerSteps>>
serviceVars == <<gridVars, realm, validateVars, statsVars, durationVars, catalogVars>>
adminListVars == <<admins, adminsLoading, adminTimers>>
adminVars == <<ready, destroyed, activeTab, loading, pageError, dashboardData, lists, listLoading, adminListVars,
               modals, pending, issued, notifications, userBudget>>

vars == <<serviceVars, adminVars>>

\* ------------------------------------------------------------------ bounds
MaxGridLen == 3
MaxStatsLen == 3
MaxInFlight == 1
MaxCallerSteps == 2
MaxUserActions == 4
MaxRepositoryActions == 2
MaxModalActions == 4

\* ------------------------------------------------------------ JS values
Null == [t |-> "null"]

Undefined == [t |-> "undefined"]
Num(n) == [t |-> "number", v |-> n]
Str(s) == [t |-> "string", v |-> s]

\* ToBoolean on the tagged values (no NaN among the numbers of the model).
Truthy(x) ==
    CASE x.t = "number" -> x.v # 0
      [] x.t = "string" -> x.v # ""
      [] x.t = "object" -> TRUE
      [] OTHER -> FALSE

\* ------------------------------------------------- numbers (IEEE doubles)
\* A number of hours is the double [neg, mag]: mag = <<w, f1, ..., f5>> is
\* the magnitude w + f1/2^20 + f2/2^40 + ... + f5/2^100 in limbs of LimbBits
\* bits (a quotient of two integers below 2^26 in size that is not zero is
\* 2^-26 or more, and its 53 bits end above 2^-100)
\* and neg tells that the number is below zero. A double has at most
\* SignificandBits significant bits.
LimbBits == 20
Limb == 2^LimbBits
SignificandBits == 53

NoMag == <<0, 0, 0, 0, 0, 0>>
Zero == [neg |-> FALSE, mag |-> NoMag]

\* Number of bits of a limb value.
RECURSIVE BitLength(_)
BitLength(n) == IF n = 0 THEN 0 ELSE 1 + BitLength(n \div 2)

\* Number of bits of the magnitude counted in units of its last limb.
MagBits(mag) ==
    CASE mag[1] > 0 -> 5 * LimbBits + BitLength(mag[1])
      [] mag[2] > 0 -> 4 * LimbBits + BitLength(mag[2])
      [] mag[3] > 0 -> 3 * LimbBits + BitLength(mag[3])
      [] mag[4] > 0 -> 2 * LimbBits + BitLength(mag[4])
      [] mag[5] > 0 -> LimbBits + BitLength(mag[5])
      [] OTHER -> BitLength(mag[6])

\* Carries the overflow of each limb into the next higher one.
Carry(mag) ==
    LET l6 == mag[6]
        l5 == mag[5] + l6 \div Limb
        l4 == mag[4] + l5 \div Limb
        l3 == mag[3] + l4 \div Limb
        l2 == mag[2] + l3 \div Limb
        l1 == mag[1] + l2 \div Limb
    IN  <<l1, l2 % Limb, l3 % Limb, l4 % Limb, l5 % Limb, l6 % Limb>>

MagLess(a, b) ==
    \E i \in 1..6 : a[i] < b[i] /\ \A j \in 1..(i - 1) : a[j] = b[j]

\* a - b for b <= a: the TLA+ % and \div round down, so a negative limb
\* borrows from the next higher one.
MagSub(a, b) == Carry([i \in 1..6 |-> a[i] - b[i]])

\* Round to nearest, ties to even: the magnitude cut to SignificandBits
\* significant bits; sticky tells that the exact value lies above mag. The
\* bits to drop are the limbs after the limb last and the low bits of that
\* limb.
RoundMag(mag, sticky) ==
    LET drop == MagBits(mag) - SignificandBits
    IN  IF drop <= 0 THEN mag
        ELSE LET last == 6 - (drop - 1) \div LimbBits
                 bits == drop - (6 - last) * LimbBits
                 unit == 2^bits
                 low == mag[last] % unit
                 half == unit \div 2
                 below == \E i \in (last + 1)..6 : mag[i] # 0
                 odd == IF bits < LimbBits THEN (mag[last] \div unit) % 2 = 1
                                           ELSE mag[last - 1] % 2 = 1
                 up == low > half \/ (low = half /\ (below \/ sticky \/ odd))
             IN  Carry([i \in 1..6 |->
                          IF i < last THEN mag[i]
                          ELSE IF i = last THEN mag[i] - low + (IF up THEN unit ELSE 0)
                          ELSE 0])

\* a + b on doubles.
NumberAdd(a, b) ==
    IF a.neg = b.neg
    THEN [neg |-> a.neg,
          mag |-> RoundMag(Carry([i \in 1..6 |-> a.mag[i] + b.mag[i]]), FALSE)]
    ELSE IF a.mag = b.mag THEN Zero
    ELSE IF MagLess(a.mag, b.mag)
         THEN [neg |-> b.neg, mag |-> RoundMag(MagSub(b.mag, a.mag), FALSE)]
         ELSE [neg |-> a.neg, mag |-> RoundMag(MagSub(a.mag, b.mag), FALSE)]

\* The next limb of the quotient r / d and the remainder left, five bits at
\* a time.
QuotientLimb(r, d) ==
    LET s1 == r * 32
        s2 == (s1 % d) * 32
        s3 == (s2 % d) * 32
        s4 == (s3 % d) * 32
    IN  [limb |-> (((s1 \div d) * 32 + s2 \div d) * 32 + s3 \div d) * 32 + s4 \div d,
         rem |-> s4 % d]

\* n / d on doubles, for integers n and d in 1..2^26 (both exact doubles):
\* the quotient to 100 binary places, then rounded to the nearest double.
NumberDivide(n, d) ==
    LET a == IF n < 0 THEN -n ELSE n
        q1 == QuotientLimb(a % d, d)
        q2 == QuotientLimb(q1.rem, d)
        q3 == QuotientLimb(q2.rem, d)
        q4 == QuotientLimb(q3.rem, d)
        q5 == QuotientLimb(q4.rem, d)
    IN  [neg |-> n < 0,
         mag |-> RoundMag(<<a \div d, q1.limb, q2.limb, q3.limb, q4.limb, q5.limb>>,
                          q5.rem # 0)]

\* The characters of the strings whose content the code inspects.
Chars(s) ==
    CASE s = "" -> <<>>
      [] s = "00:00" -> <<"0", "0", ":", "0", "0">>
      [] s = "08:00" -> <<"0", "8", ":", "0", "0">>
      [] s = "09:00" -> <<"0", "9", ":", "0", "0">>
      [] s = "09:30" -> <<"0", "9", ":", "3", "0">>
      [] s = "10:00" -> <<"1", "0", ":", "0", "0">>
      [] s = "10:15" -> <<"1", "0", ":", "1", "5">>
      [] s = "11:15" -> <<"1", "1", ":", "1", "5">>
      [] s = "12:15" -> <<"1", "2", ":", "1", "5">>
      [] s = "14:00" -> <<"1", "4", ":", "0", "0">>
      [] s = "16:00" -> <<"1", "6", ":", "0", "0">>
      [] s = "16:15" -> <<"1", "6", ":", "1", "5">>
      [] s = "18:15" -> <<"1", "8", ":", "1", "5">>
      [] s = "23:59" -> <<"2", "3", ":", "5", "9">>
      [] s = "2024-2025" -> <<"2", "0", "2", "4", "-", "2", "0", "2", "5">>
      [] s = "2024-25" -> <<"2", "0", "2", "4", "-", "2", "5">>
      [] s = "2024/2025" -> <<"2", "0", "2", "4", "/", "2", "0", "2", "5">>

\* UTF-16 code unit of a character.
Code(c) ==
    CASE c = "-" -> 45 [] c = "/" -> 47
      [] c = "0" -> 48 [] c = "1" -> 49 [] c = "2" -> 50 [] c = "3" -> 51
      [] c = "4" -> 52 [] c = "5" -> 53 [] c = "6" -> 54 [] c = "7" -> 55
      [] c = "8" -> 56 [] c = "9" -> 57 [] c = ":" -> 58

IsDigit(c) == Code(c) >= 48 /\ Code(c) <= 57

\* a < b on two strings: the first differing code unit decides, a proper
\* prefix is smaller.
RECURSIVE SeqLess(_, _)
SeqLess(a, b) ==
    IF b = <<>> THEN FALSE
    ELSE IF a = <<>> THEN TRUE
    ELSE IF Code(Head(a)) # Code(Head(b)) THEN Code(Head(a)) < Code(Head(b))
    ELSE SeqLess(Tail(a), Tail(b))

StrLess(a, b) == SeqLess(Chars(a), Chars(b))

EmptyObject == [k \in {} |-> Null]

\* ------------------------------------------------------------ JS objects
\* An object is named by its id <<owner, name, n>>: the builtin objects of
\* the realm, the grid and the day objects a call creates, and the records
\* of the caller's list.
\* Id("Object", 0) is the function Object, <<"Object", "keys", 0>> its
\* method keys, Id("row", k) the k-th day object, Id("schedule", i) the i-th
\* record of the list.
Id(owner, n) == <<owner, "", n>>

\* A reference to the object id, as a value.
Ref(id) == [t |-> "object", v |-> id]

\* Properties: a data property, and by kind the accessor "__proto__" of
\* Object.prototype, the accessors caller and arguments of
\* Function.prototype, whose getter and setter throw a TypeError
\* ("thrower"), and the answer of a search that finds no property ("none").
DataProperty(value, writable) == [kind |-> "data", value |-> value, writable |-> writable]
Accessor(kind) == [kind |-> kind, value |-> Undefined, writable |-> FALSE]

\* An object: its [[Prototype]] (a reference or null), whether that is
\* fixed (immutable prototype exotic object), and its own properties by key.
\* The object {} with the own data properties props.
PlainObject(props) ==
    [proto |-> Ref(Id("Object.prototype", 0)), immutableProto |-> FALSE, props |-> props]

\* A builtin function: own read-only length and name.
BuiltinFunction(name, length) ==
    [proto |-> Ref(Id("Function.prototype", 0)), immutableProto |-> FALSE,
     props |-> [k \in {"length", "name"} |->
                  DataProperty(IF k = "length" THEN Num(length) ELSE Str(name), FALSE)]]

\* The methods of Object, Object.prototype and Function.prototype by name,
\* with their length.
ObjectMethods ==
    {<<"assign", 2>>, <<"getOwnPropertyDescriptor", 2>>, <<"getOwnPropertyDescriptors", 1>>,
     <<"getOwnPropertyNames", 1>>, <<"getOwnPropertySymbols", 1>>, <<"hasOwn", 2>>,
     <<"is", 2>>, <<"preventExtensions", 1>>, <<"seal", 1>>, <<"create", 2>>,
     <<"defineProperties", 2>>, <<"defineProperty", 3>>, <<"freeze", 1>>,
     <<"getPrototypeOf", 1>>, <<"setPrototypeOf", 2>>, <<"isExtensible", 1>>,
     <<"isFrozen", 1>>, <<"isSealed", 1>>, <<"keys", 1>>, <<"entries", 1>>,
     <<"fromEntries", 1>>, <<"values", 1>>, <<"groupBy", 2>>}

ObjectPrototypeMethods ==
    {<<"__defineGetter__", 2>>, <<"__defineSetter__", 2>>, <<"hasOwnProperty", 1>>,
     <<"__lookupGetter__", 1>>, <<"__lookupSetter__", 1>>, <<"isPrototypeOf", 1>>,
     <<"propertyIsEnumerable", 1>>, <<"toString", 0>>, <<"valueOf", 0>>,
     <<"toLocaleString", 0>>}

FunctionPrototypeMethods == {<<"apply", 2>>, <<"bind", 1>>, <<"call", 1>>, <<"toString", 0>>}

\* The writable properties that hold the methods of owner, and the method
\* objects themselves.
MethodProperties(owner, methods) ==
    [n \in {m[1] : m \in methods} |-> DataProperty(Ref(<<owner, n, 0>>), TRUE)]

MethodObjects(owner, methods) ==
    [id \in {<<owner, m[1], 0>> : m \in methods} |->
        BuiltinFunction(id[2], (CHOOSE m \in methods : m[1] = id[2])[2])]

\* The builtin objects a property read or write that starts at a plain
\* object can come to, as the realm has them before any call (string keys
\* only).
Builtins ==
    (Id("Object.prototype", 0) :>
        [proto |-> Null, immutableProto |-> TRUE,
         props |-> MethodProperties("Object.prototype", ObjectPrototypeMethods)
                   @@ ("constructor" :> DataProperty(Ref(Id("Object", 0)), TRUE))
                   @@ ("__proto__" :> Accessor("__proto__"))])
    @@ (Id("Function.prototype", 0) :>
        [proto |-> Ref(Id("Object.prototype", 0)), immutableProto |-> FALSE,
         props |-> MethodProperties("Function.prototype", FunctionPrototypeMethods)
                   @@ ("constructor" :> DataProperty(Ref(Id("Function", 0)), TRUE))
                   @@ ("length" :> DataProperty(Num(0), FALSE))
                   @@ ("name" :> DataProperty(Str(""), FALSE))
                   @@ ("caller" :> Accessor("thrower"))
                   @@ ("arguments" :> Accessor("thrower"))])
    @@ (Id("Object", 0) :>
        [proto |-> Ref(Id("Function.prototype", 0)), immutableProto |-> FALSE,
         props |-> MethodProperties("Object", ObjectMethods)
                   @@ ("length" :> DataProperty(Num(1), FALSE))
                   @@ ("name" :> DataProperty(Str("Object"), FALSE))
                   @@ ("prototype" :> DataProperty(Ref(Id("Object.prototype", 0)), FALSE))])
    @@ (Id("Function", 0) :>
        [proto |-> Ref(Id("Function.prototype", 0)), immutableProto |-> FALSE,
         props |-> ("length" :> DataProperty(Num(1), FALSE))
                   @@ ("name" :> DataProperty(Str("Function"), FALSE))
                   @@ ("prototype" :> DataProperty(Ref(Id("Function.prototype", 0)), FALSE))])
    @@ MethodObjects("Object", ObjectMethods)
    @@ MethodObjects("Object.prototype", ObjectPrototypeMethods)
    @@ MethodObjects("Function.prototype", FunctionPrototypeMethods)

\* A heap holds the objects by id: the builtin objects, and the objects
\* the program has created.
Obj(heap, id) == heap[id]

Put(heap, id, obj) ==
    [i \in (DOMAIN heap) \cup {id} |-> IF i = id THEN obj ELSE heap[i]]

\* The property key of the object id or of the nearest object of its
\* prototype chain that has one.
RECURSIVE FindProperty(_, _, _)
FindProperty(heap, id, key) ==
    LET obj == Obj(heap, id)
    IN  IF key \in DOMAIN obj.props THEN obj.props[key]
        ELSE IF obj.proto = Null THEN Accessor("none")
        ELSE FindProperty(heap, obj.proto.v, key)

\* Completions of a read and of a write.
Normal(value) == [thrown |-> FALSE, value |-> value]
ThrowTypeError == [thrown |-> TRUE, value |-> Str("TypeError")]

\* id[key]
OrdinaryGet(heap, id, key) ==
    LET p == FindProperty(heap, id, key)
    IN  CASE p.kind = "none" -> Normal(Undefined)
          [] p.kind = "data" -> Normal(p.value)
          [] p.kind = "__proto__" -> Normal(Obj(heap, id).proto)
          [] p.kind = "thrower" -> ThrowTypeError

\* The object id is on the prototype chain that starts at the value from.
RECURSIVE OnChain(_, _, _)
OnChain(heap, from, id) ==
    IF from = Null THEN FALSE
    ELSE from.v = id \/ OnChain(heap, Obj(heap, from.v).proto, id)

\* id.__proto__ = value: a value that is neither an object nor null is
\* ignored; a fixed prototype and a chain that would come back to id are
\* TypeErrors.
SetPrototype(heap, id, value) ==
    LET obj == Obj(heap, id)
    IN  IF value.t \notin {"object", "null"} \/ value = obj.proto
        THEN [thrown |-> FALSE, heap |-> heap]
        ELSE IF obj.immutableProto \/ OnChain(heap, value, id)
        THEN [thrown |-> TRUE, heap |-> heap]
        ELSE [thrown |-> FALSE, heap |-> Put(heap, id, [obj EXCEPT !.proto = value])]

\* id[key] = value in strict mode code: a read-only property, own or
\* inherited, is a TypeError; an accessor gets the value; any other key
\* becomes or stays an own property of id.
OrdinarySet(heap, id, key, value) ==
    LET obj == Obj(heap, id)
        p == FindProperty(heap, id, key)
        props == [k \in (DOMAIN obj.props) \cup {key} |->
                    IF k = key THEN DataProperty(value, TRUE) ELSE obj.props[k]]
    IN  CASE p.kind = "none" \/ (p.kind = "data" /\ p.writable) ->
                [thrown |-> FALSE, heap |-> Put(heap, id, [obj EXCEPT !.props = props])]
          [] p.kind = "data" /\ ~p.writable -> [thrown |-> TRUE, heap |-> heap]
          [] p.kind = "__proto__" -> SetPrototype(heap, id, value)
          [] p.kind = "thrower" -> [thrown |-> TRUE, heap |-> heap]

\* The key a value names a property with (a string, undefined, null or an
\* object): an object is converted by its toString method, which gives
\* "[object Object]" when it is the method of Object.prototype; a record in
\* the place of the method cannot be called, and valueOf, method or record,
\* gives no primitive either, which is a TypeError.
ToPropertyKey(heap, value) ==
    CASE value.t = "string" -> Normal(value.v)
      [] value.t = "undefined" -> Normal("undefined")
      [] value.t = "null" -> Normal("null")
      [] value.t = "object" ->
            IF OrdinaryGet(heap, value.v, "toString")
                  = Normal(Ref(<<"Object.prototype", "toString", 0>>))
            THEN Normal("[object Object]")
            ELSE ThrowTypeError

\* The key that id[field] names.
KeyOf(heap, id, field) ==
    LET r == OrdinaryGet(heap, id, field)
    IN  IF r.thrown THEN r ELSE ToPropertyKey(heap, r.value)

\* The object of a record of the caller's list: id is a number, the other
\* fields are strings.
RecordObject(r) ==
    PlainObject([k \in DOMAIN r |->
                    DataProperty(IF k = "id" THEN Num(r[k]) ELSE Str(r[k]), TRUE)])

\* What a caller sees of a value: a primitive as it is, an object by its
\* own properties.
OwnValues(heap, value) ==
    IF value.t = "object"
    THEN LET props == Obj(heap, value.v).props
         IN  [k \in DOMAIN props |->
                IF props[k].value.t \in {"number", "string"} THEN props[k].value.v
                ELSE props[k].value]
    ELSE value

\* ------------------------------------------------------------- catalogs
TIME_SLOTS ==
    << [start_time |-> "08:00", end_time |-> "10:00", label |-> "08h00 - 10h00"],
       [start_time |-> "10:15", end_time |-> "12:15", label |-> "10h15 - 12h15"],
       [start_time |-> "14:00", end_time |-> "16:00", label |-> "14h00 - 16h00"],
       [start_time |-> "16:15", end_time |-> "18:15", label |-> "16h15 - 18h15"] >>

DAYS_OF_WEEK ==
    << [value |-> "MONDAY",    label |-> "Lundi"],
       [value |-> "TUESDAY",   label |-> "Mardi"],
       [value |-> "WEDNESDAY", label |-> "Mercredi"],
       [value |-> "THURSDAY",  label |-> "Jeudi"],
       [value |-> "FRIDAY",    label |-> "Vendredi"],
       [value |-> "SATURDAY",  label |-> "Samedi"] >>

\* The keys the forEach loop over this.DAYS_OF_WEEK visits.
DayValues == {daysOfWeek[i].value : i \in DOMAIN daysOfWeek}

\* ------------------------------------------------------ formatWeeklyGrid
\* The states of a call are st = [thrown, heap]: whether a TypeError has
\* ended the call, and the objects.

\* this.TIME_SLOTS.forEach(slot => { grid[day.value][slot.start_time] = null; })
RECURSIVE SlotsInit(_, _, _)
SlotsInit(st, day, slots) ==
    IF slots = <<>> \/ st.thrown THEN st
    ELSE LET row == OrdinaryGet(st.heap, Id("grid", 0), day.value)
             next == IF row.thrown \/ row.value.t # "object"
                     THEN [thrown |-> TRUE, heap |-> st.heap]
                     ELSE OrdinarySet(st.heap, row.value.v, Head(slots).start_time, Null)
         IN  SlotsInit(next, day, Tail(slots))

\* this.DAYS_OF_WEEK.forEach(day => { grid[day.value] = {}; ... }), from
\* the k-th entry on.
RECURSIVE DaysInit(_, _)
DaysInit(st, k) ==
    IF k > Len(daysOfWeek) \/ st.thrown THEN st
    ELSE LET created == Put(st.heap, Id("row", k), PlainObject(EmptyObject))
             assigned == OrdinarySet(created, Id("grid", 0), daysOfWeek[k].value, Ref(Id("row", k)))
         IN  DaysInit(SlotsInit(assigned, daysOfWeek[k], timeSlots), k + 1)

\* Variant of GridStep: a cell that already holds a record is kept.
GridStep_FirstWins(st, schedule) ==
    LET stop == [thrown |-> TRUE, heap |-> st.heap]
        day == KeyOf(st.heap, schedule.v, "day_of_week")
        row == OrdinaryGet(st.heap, Id("grid", 0), day.value)
        start == KeyOf(st.heap, schedule.v, "start_time")
        cell == OrdinaryGet(st.heap, row.value.v, start.value)
    IN  IF day.thrown \/ row.thrown THEN stop
        ELSE IF ~Truthy(row.value) THEN st
        ELSE IF start.thrown \/ cell.thrown THEN stop
        ELSE IF cell.value # Null THEN st
        ELSE OrdinarySet(st.heap, row.value.v, start.value, schedule)

\* Variant of GridStep: a record is placed only when it spans exactly a
\* catalog slot, start and end.
GridStep_WholeSlot(st, schedule) ==
    LET stop == [thrown |-> TRUE, heap |-> st.heap]
        day == KeyOf(st.heap, schedule.v, "day_of_week")
        row == OrdinaryGet(st.heap, Id("grid", 0), day.value)
        start == KeyOf(st.heap, schedule.v, "start_time")
        end == KeyOf(st.heap, schedule.v, "end_time")
    IN  IF day.thrown \/ row.thrown THEN stop
        ELSE IF ~Truthy(row.value) THEN st
        ELSE IF start.thrown \/ end.thrown THEN stop
        ELSE IF ~\E i \in DOMAIN timeSlots :
                    /\ timeSlots[i].start_time = start.value
                    /\ timeSlots[i].end_time = end.value
        THEN st
        ELSE OrdinarySet(st.heap, row.value.v, start.value, schedule)

\* One iteration of schedules.forEach, schedule being the reference to the
\* record: grid[day] is an own day object, or what the grid inherits under
\* that name (the function Object for "constructor", a method of
\* Object.prototype, Object.prototype itself for "__proto__"), or undefined;
\* the record is assigned when the key start is defined there, own or
\* inherited. A TypeError at a read or at the assignment ends the call.
GridStep(st, schedule) ==
    LET stop == [thrown |-> TRUE, heap |-> st.heap]
        day == KeyOf(st.heap, schedule.v, "day_of_week")
        row == OrdinaryGet(st.heap, Id("grid", 0), day.value)
        start == KeyOf(st.heap, schedule.v, "start_time")
        cell == OrdinaryGet(st.heap, row.value.v, start.value)
    IN  IF day.thrown \/ row.thrown THEN stop
        ELSE IF ~Truthy(row.value) THEN st
        ELSE IF start.thrown \/ cell.thrown THEN stop
        ELSE IF cell.value = Undefined THEN st
        ELSE OrdinarySet(st.heap, row.value.v, start.value, schedule)

\* schedules.forEach(...): a TypeError ends the loop.
RECURSIVE GridFill(_, _)
GridFill(st, list) ==
    IF list = <<>> \/ st.thrown THEN st
    ELSE GridFill(GridStep(st, Head(list)), Tail(list))

\* The grid as the caller reads it: its own keys, under each the own keys
\* of the day object, under each null or the record by its own properties.
GridView(heap) ==
    LET days == Obj(heap, Id("grid", 0)).props
    IN  [d \in DOMAIN days |->
            IF days[d].value.t = "object"
            THEN LET cells == Obj(heap, days[d].value.v).props
                 IN  [s \in DOMAIN cells |-> OwnValues(heap, cells[s].value)]
            ELSE days[d].value]

\* What a caller gets when the call throws.
TypeError == [thrown |-> "TypeError"]

\* Result of formatWeeklyGrid(list) in a realm that holds the objects
\* before: the returned grid, or the TypeError, and the realm after the
\* call. The grid and the day objects are created by the call; of the
\* records of the list the realm keeps those a call has written to.
FormatWeeklyGrid(before, list) ==
    LET records == {Id("schedule", i) : i \in DOMAIN list}
        start == [id \in (DOMAIN before) \cup records \cup {Id("grid", 0)} |->
                    IF id \in DOMAIN before THEN before[id]
                    ELSE IF id = Id("grid", 0) THEN PlainObject(EmptyObject)
                    ELSE RecordObject(list[id[3]])]
        built == DaysInit([thrown |-> FALSE, heap |-> start], 1)
        filled == GridFill(built, [i \in DOMAIN list |-> Ref(Id("schedule", i))])
        kept == {id \in DOMAIN filled.heap :
                    /\ id[1] \notin {"grid", "row"}
                    /\ id[1] = "schedule" => filled.heap[id] # RecordObject(list[id[3]])}
    IN  [grid |-> IF filled.thrown THEN TypeError ELSE GridView(filled.heap),
         realm |-> [id \in kept |-> filled.heap[id]]]

\* ----------------------------------------------------------- grid inputs
\* Day, start and end of the records of an input list: a catalog cell with
\* the end of its slot and with a later end, another catalog cell, a start
\* and a day outside the catalogs, and the names of inherited properties: a
\* method and the accessor __proto__ as start on a day object, an absent, a
\* writable and a read-only property of the function Object under the day
\* "constructor", and a method of Object.prototype under the day "__proto__".
GridTemplates ==
    { <<"MONDAY", "08:00", "10:00">>, <<"MONDAY", "08:00", "18:15">>,
      <<"MONDAY", "16:15", "18:15">>, <<"MONDAY", "09:00", "10:00">>,
      <<"SUNDAY", "08:00", "10:00">>,
      <<"MONDAY", "toString", "10:00">>, <<"MONDAY", "__proto__", "10:00">>,
      <<"constructor", "08:00", "10:00">>, <<"constructor", "toString", "10:00">>,
      <<"constructor", "name", "10:00">>,
      <<"__proto__", "valueOf", "10:00">> }

\* The record at position i of an input list has id i.
GridRecord(i, d, s, e) ==
    [id |-> i, day_of_week |-> d, start_time |-> s, end_time |-> e]

\* The parts of the state that belong to operations nobody has called yet.
GridIdle == schedules = <<>> /\ gridResult = <<>>
ValidateIdle == scheduleData = EmptyObject /\ validation = <<>>
StatsIdle == serverSchedules = <<>> /\ inFlight = 0 /\ delivered = <<>>
DurationIdle == argStart = "08:00" /\ argEnd = "10:00" /\ durationResult = <<>>

\* The AdminComponent as its field initialisers and constructor leave it.
ClosedModal == [isOpen |-> FALSE, mode |-> "create", data |-> <<>>]

AdminInit(budget) ==
    /\ ready = FALSE
    /\ destroyed = FALSE
    /\ activeTab = "statistics"
    /\ loading = TRUE
    /\ pageError = Null
    /\ dashboardData = [admin |-> Null, chart |-> Null]
    /\ lists = [teachers |-> <<>>, students |-> <<>>, classes |-> <<>>, subjects |-> <<>>]
    /\ listLoading = [teachers |-> FALSE, students |-> FALSE, classes |-> FALSE]
    /\ admins = <<>>
    /\ adminsLoading = FALSE
    /\ adminTimers = 0
    /\ modals = [teachers |-> ClosedModal, students |-> ClosedModal,
                 classes |-> ClosedModal, admins |-> ClosedModal]
    /\ pending = {}
    /\ issued = 0
    /\ notifications = [error |-> 0, success |-> 0]
    /\ userBudget = budget

\* The catalogs as the constructor leaves them; no caller holds a copy.
CatalogInit ==
    /\ timeSlots = TIME_SLOTS
    /\ daysOfWeek = DAYS_OF_WEEK
    /\ returnedSlots = <<>>
    /\ returnedDays = <<>>
    /\ callerSteps = 0

InitGrid ==
    /\ \E n \in 0..MaxGridLen :
         \E f \in [1..n -> GridTemplates] :
            schedules = [i \in 1..n |-> GridRecord(i, f[i][1], f[i][2], f[i][3])]
    /\ gridResult = <<>>
    /\ realm = Builtins
    /\ ValidateIdle
    /\ StatsIdle
    /\ DurationIdle
    /\ CatalogInit
    /\ AdminInit(0)

\* A caller invokes formatWeeklyGrid(schedules).
FormatWeeklyGridCall ==
    /\ LET r == FormatWeeklyGrid(realm, schedules)
       IN  /\ gridResult' = <<r.grid>>
           /\ realm' = r.realm
    /\ UNCHANGED <<schedules, validateVars, statsVars, durationVars, catalogVars>>
    /\ UNCHANGED adminVars

NextGrid == FormatWeeklyGridCall

SpecGrid == InitGrid /\ [][NextGrid]_vars

\* ------------------------------------------------- properties of the grid
CatalogDays == {"MONDAY", "TUESDAY", "WEDNESDAY", "THURSDAY", "FRIDAY", "SATURDAY"}
CatalogStarts == {"08:00", "10:15", "14:00", "16:15"}

\* Positions of the input records that fall on day d at slot start s.
Falling(d, s) ==
    {i \in DOMAIN schedules :
        schedules[i].day_of_week = d /\ schedules[i].start_time = s}

MaxOf(S) == CHOOSE m \in S : \A k \in S : k <= m

\* The call has returned a grid.
HasGrid == gridResult # <<>> /\ gridResult[1] # TypeError

\* C1: the returned grid has exactly the six catalog weekdays as keys and
\* every weekday maps to exactly the four catalog slot starts, for every
\* input list.
C1_GridTotality ==
    gridResult # <<>> =>
        /\ DOMAIN gridResult[1] = CatalogDays
        /\ \A d \in CatalogDays : DOMAIN gridResult[1][d] = CatalogStarts

\* C2: a cell (d, s) is null exactly when no input record has day d and
\* start s, and otherwise holds an input record with that day and start,
\* whatever the record's end_time.
C2_GridPopulation ==
    HasGrid =>
        \A d \in CatalogDays, s \in CatalogStarts :
            /\ (gridResult[1][d][s] = Null) <=> (Falling(d, s) = {})
            /\ Falling(d, s) # {} =>
                  \E i \in Falling(d, s) : gridResult[1][d][s] = schedules[i]

\* A single record on MONDAY at 08:00 ending at 18:15 sits in its cell and
\* the 23 other cells are empty.
C2_Witness ==
    /\ HasGrid
    /\ schedules = << GridRecord(1, "MONDAY", "08:00", "18:15") >>
    /\ gridResult[1]["MONDAY"]["08:00"] = schedules[1]
    /\ Cardinality({c \in CatalogDays \X CatalogStarts :
                       gridResult[1][c[1]][c[2]] = Null}) = 23

\* C3: when several records fall on the same day and slot start, the cell
\* holds the one that comes last in the input list.
C3_LastWriteWins ==
    HasGrid =>
        \A d \in CatalogDays, s \in CatalogStarts :
            Falling(d, s) # {} =>
                gridResult[1][d][s] = schedules[MaxOf(Falling(d, s))]

\* Records 1 and 3 collide on MONDAY 08:00 with another record between
\* them; the cell holds record 3.
C3_Witness ==
    /\ HasGrid
    /\ Len(schedules) = 3
    /\ Falling("MONDAY", "08:00") = {1, 3}
    /\ schedules[1] # schedules[3]
    /\ gridResult[1]["MONDAY"]["08:00"] = schedules[3]

\* -------------------------------------------------- validateScheduleData
MsgClass == "La classe est obligatoire"
MsgTeacher == "L'enseignant est obligatoire"
MsgSubject == "La matière est obligatoire"
MsgDay == "Jour de la semaine invalide"
MsgTime == "L'heure de fin doit être après l'heure de début"
MsgYear == "Format d'année académique invalide (YYYY-YYYY)"
MsgSemester == "Semestre invalide (S1 ou S2)"

\* key in data
Has(data, key) == key \in DOMAIN data

\* Variant of IdError: the reference is required whether or not its key is present.
IdError_Required(data, key) ==
    ~Has(data, key) \/ ~Truthy(data[key]) \/ data[key].v <= 0

\* 'key' in data && (!data[key] || data[key] <= 0)
IdError(data, key) ==
    Has(data, key) /\ (~Truthy(data[key]) \/ data[key].v <= 0)

\* Variant of DayError: an empty day is skipped like an empty year or semester.
DayError_SkipEmpty(data) ==
    /\ Has(data, "day_of_week") /\ Truthy(data["day_of_week"])
    /\ ~\E i \in DOMAIN daysOfWeek : Str(daysOfWeek[i].value) = data["day_of_week"]

\* 'day_of_week' in data && !DAYS_OF_WEEK.find(d => d.value === data.day_of_week)
DayError(data) ==
    /\ Has(data, "day_of_week")
    /\ ~\E i \in DOMAIN daysOfWeek : Str(daysOfWeek[i].value) = data["day_of_week"]

\* Variant of TimeError: equal times are accepted.
TimeError_AllowEqual(data) ==
    /\ Has(data, "start_time") /\ Has(data, "end_time")
    /\ Truthy(data["start_time"]) /\ Truthy(data["end_time"])
    /\ StrLess(data["end_time"].v, data["start_time"].v)

\* both keys present, both values truthy, start_time >= end_time as strings
TimeError(data) ==
    /\ Has(data, "start_time") /\ Has(data, "end_time")
    /\ Truthy(data["start_time"]) /\ Truthy(data["end_time"])
    /\ ~StrLess(data["start_time"].v, data["end_time"].v)

\* /^\d{4}-\d{4}$/.test(s)
YearPattern(s) ==
    LET c == Chars(s)
    IN  /\ Len(c) = 9
        /\ \A i \in {1, 2, 3, 4, 6, 7, 8, 9} : IsDigit(c[i])
        /\ c[5] = "-"

YearError(data) ==
    /\ Has(data, "academic_year") /\ Truthy(data["academic_year"])
    /\ ~YearPattern(data["academic_year"].v)

SemesterError(data) ==
    /\ Has(data, "semester") /\ Truthy(data["semester"])
    /\ data["semester"].v \notin {"S1", "S2"}

\* errors.push(msg) when the rule's condition holds
Push(cond, msg) == IF cond THEN <<msg>> ELSE <<>>

ValidateScheduleData(data) ==
    LET errors ==
            Push(IdError(data, "class_id"), MsgClass)
         \o Push(IdError(data, "teacher_id"), MsgTeacher)
         \o Push(IdError(data, "subject_id"), MsgSubject)
         \o Push(DayError(data), MsgDay)
         \o Push(TimeError(data), MsgTime)
         \o Push(YearError(data), MsgYear)
         \o Push(SemesterError(data), MsgSemester)
    IN  [isValid |-> Len(errors) = 0, errors |-> errors]

\* ------------------------------------------------------ validator inputs
Absent == [t |-> "absent"]
PayloadIds == {Absent, Undefined, Num(-1), Num(0), Num(5)}
PayloadDays == {Absent, Str("MONDAY"), Str("SUNDAY"), Str("monday"), Str("")}
PayloadTimes == {Absent, Str("09:00"), Str("10:00"), Str("10:15")}
PayloadYears == {Absent, Str("2024-2025"), Str("2024-25"), Str("")}
PayloadSemesters == {Absent, Str("S1"), Str("S2"), Str("S3"), Str("s1"), Str("")}

\* The object literal holding the chosen keys only.
Payload(ch) == [k \in {k \in DOMAIN ch : ch[k] # Absent} |-> ch[k]]

InitValidate ==
    /\ \E ci \in PayloadIds, ti \in PayloadIds, si \in PayloadIds,
          d \in PayloadDays, st \in PayloadTimes, en \in PayloadTimes,
          y \in PayloadYears, se \in PayloadSemesters :
            scheduleData = Payload([class_id |-> ci, teacher_id |-> ti,
                                    subject_id |-> si, day_of_week |-> d,
                                    start_time |-> st, end_time |-> en,
                                    academic_year |-> y, semester |-> se])
    /\ validation = <<>>
    /\ GridIdle
    /\ realm = Builtins
    /\ StatsIdle
    /\ DurationIdle
    /\ CatalogInit
    /\ AdminInit(0)

\* A caller invokes validateScheduleData(scheduleData).
ValidateScheduleDataCall ==
    /\ validation' = <<ValidateScheduleData(scheduleData)>>
    /\ UNCHANGED <<gridVars, realm, scheduleData, statsVars, durationVars,
                   catalogVars>>
    /\ UNCHANGED adminVars

NextValidate == ValidateScheduleDataCall

SpecValidate == InitValidate /\ [][NextValidate]_vars

\* ------------------------------------------------------ calculateDuration
\* Variant of ParseClock: the minutes of the clock time are dropped.
ParseClock_HoursOnly(s) ==
    LET c == Chars(s)
        digit(i) == Code(c[i]) - 48
    IN  (digit(1) * 10 + digit(2)) * 60

\* Minutes after midnight that Date parses from "2000-01-01T<HH:MM>:00".
ParseClock(s) ==
    LET c == Chars(s)
        digit(i) == Code(c[i]) - 48
    IN  (digit(1) * 10 + digit(2)) * 60 + digit(4) * 10 + digit(5)

\* Date.getTime() in milliseconds, counted from the local midnight of
\* 2000-01-01 (the same date in both operands of the subtraction).
GetTime(s) == ParseClock(s) * 60 * 1000

\* (end.getTime() - start.getTime()) / (1000 * 60 * 60): the difference of
\* the two instants is an exact integer, the quotient is a double.
CalculateDuration(startTime, endTime) ==
    NumberDivide(GetTime(endTime) - GetTime(startTime), 1000 * 60 * 60)

\* Zero-padded HH:MM arguments: the catalog slot bounds, times between
\* them, and the first and last minute of the day.
ClockTimes ==
    {"00:00", "08:00", "09:00", "09:30", "10:00", "10:15", "11:15", "12:15",
     "14:00", "16:00", "16:15", "18:15", "23:59"}

InitDuration ==
    /\ argStart \in ClockTimes
    /\ argEnd \in ClockTimes
    /\ durationResult = <<>>
    /\ GridIdle
    /\ realm = Builtins
    /\ ValidateIdle
    /\ StatsIdle
    /\ CatalogInit
    /\ AdminInit(0)

\* The aggregator invokes calculateDuration(argStart, argEnd).
CalculateDurationCall ==
    /\ durationResult' = <<CalculateDuration(argStart, argEnd)>>
    /\ UNCHANGED <<gridVars, realm, validateVars, statsVars, argStart, argEnd,
                   catalogVars>>
    /\ UNCHANGED adminVars

NextDuration == CalculateDurationCall

SpecDuration == InitDuration /\ [][NextDuration]_vars

\* -------------------------------------------------- getScheduleStatistics
\* An object keyed by id is the sequence of its entries in insertion order.
HasKey(table, id) == \E i \in DOMAIN table : table[i].key = id

\* Variant of AddHours: every record overwrites the entry's name.
AddHours_LastName(table, id, name, duration) ==
    LET t1 == IF HasKey(table, id) THEN table
              ELSE Append(table, [key |-> id, name |-> name, hours |-> Zero])
    IN  [i \in DOMAIN t1 |->
            IF t1[i].key = id
            THEN [key |-> id, name |-> name, hours |-> NumberAdd(t1[i].hours, duration)]
            ELSE t1[i]]

\* Variant of AddHours: the entry keeps the duration of the latest record.
AddHours_Assign(table, id, name, duration) ==
    LET t1 == IF HasKey(table, id) THEN table
              ELSE Append(table, [key |-> id, name |-> name, hours |-> Zero])
    IN  [i \in DOMAIN t1 |->
            IF t1[i].key = id THEN [t1[i] EXCEPT !.hours = duration] ELSE t1[i]]

\* if (!table[id]) table[id] = {name, hours: 0};  table[id].hours += duration
AddHours(table, id, name, duration) ==
    LET t1 == IF HasKey(table, id) THEN table
              ELSE Append(table, [key |-> id, name |-> name, hours |-> Zero])
    IN  [i \in DOMAIN t1 |->
            IF t1[i].key = id THEN [t1[i] EXCEPT !.hours = NumberAdd(@, duration)] ELSE t1[i]]

\* Variant of StatsStep: the class hours are counted only for the first
\* record of a teacher.
StatsStep_ClassInTeacherGuard(acc, schedule) ==
    LET duration == CalculateDuration(schedule.start_time, schedule.end_time)
    IN  [teacherHours |-> AddHours(acc.teacherHours, schedule.teacher_id,
                                   schedule.teacher_name, duration),
         classHours |-> IF HasKey(acc.teacherHours, schedule.teacher_id)
                        THEN acc.classHours
                        ELSE AddHours(acc.classHours, schedule.class_id,
                                      schedule.class_name, duration)]

\* One iteration of schedules.forEach: acc = [teacherHours, classHours].
StatsStep(acc, schedule) ==
    LET duration == CalculateDuration(schedule.start_time, schedule.end_time)
    IN  [teacherHours |-> AddHours(acc.teacherHours, schedule.teacher_id,
                                   schedule.teacher_name, duration),
         classHours |-> AddHours(acc.classHours, schedule.class_id,
                                 schedule.class_name, duration)]

RECURSIVE StatsFill(_, _)
StatsFill(acc, list) ==
    IF list = <<>> THEN acc
    ELSE StatsFill(StatsStep(acc, Head(list)), Tail(list))

\* A property key that is an array index (a canonical integer from 0 up;
\* the integers of the model stay far below the limit 2^32 - 2).
IsArrayIndex(k) == k >= 0

RECURSIVE Ascending(_)
Ascending(S) ==
    IF S = {} THEN <<>>
    ELSE LET m == CHOOSE x \in S : \A y \in S : x <= y
         IN  <<m>> \o Ascending(S \ {m})

EntryOf(table, id) == table[CHOOSE i \in DOMAIN table : table[i].key = id]

NotIndexed(e) == ~IsArrayIndex(e.key)

\* Variant of ObjectValues: the entries in insertion order.
ObjectValues_InsertionOrder(table) == table

\* Object.values(table): own property order, the array-index keys first in
\* ascending numeric order, then the other keys in insertion order.
ObjectValues(table) ==
    LET idx == Ascending({table[i].key : i \in {j \in DOMAIN table : IsArrayIndex(table[j].key)}})
    IN  [i \in DOMAIN idx |-> EntryOf(table, idx[i])] \o SelectSeq(table, NotIndexed)

\* Variant of SchedulesByDay: only the days on which a record falls get a key.
SchedulesByDay_SeenOnly(list) ==
    [d \in {x \in DayValues : \E i \in DOMAIN list : list[i].day_of_week = x} |->
        Cardinality({i \in DOMAIN list : list[i].day_of_week = d})]

\* DAYS_OF_WEEK.forEach(day => by_day[day.value] = filter(...).length)
SchedulesByDay(list) ==
    [d \in DayValues |-> Cardinality({i \in DOMAIN list : list[i].day_of_week = d})]

\* Variant of Statistics: total_schedules counts the records of the catalog
\* weekdays only.
Statistics_TotalOfCatalogDays(list) ==
    LET acc == StatsFill([teacherHours |-> <<>>, classHours |-> <<>>], list)
        t == ObjectValues(acc.teacherHours)
        c == ObjectValues(acc.classHours)
    IN  [total_schedules |->
            Cardinality({i \in DOMAIN list : list[i].day_of_week \in DayValues}),
         schedules_by_day |-> SchedulesByDay(list),
         teacher_workload |->
            [i \in DOMAIN t |-> [teacher_name |-> t[i].name, hours_per_week |-> t[i].hours]],
         class_coverage |->
            [i \in DOMAIN c |-> [class_name |-> c[i].name, hours_per_week |-> c[i].hours]]]

\* The value the map operator computes from the fetched list.
Statistics(list) ==
    LET acc == StatsFill([teacherHours |-> <<>>, classHours |-> <<>>], list)
        t == ObjectValues(acc.teacherHours)
        c == ObjectValues(acc.classHours)
    IN  [total_schedules |-> Len(list),
         schedules_by_day |-> SchedulesByDay(list),
         teacher_workload |->
            [i \in DOMAIN t |-> [teacher_name |-> t[i].name, hours_per_week |-> t[i].hours]],
         class_coverage |->
            [i \in DOMAIN c |-> [class_name |-> c[i].name, hours_per_week |-> c[i].hours]]]

\* ------------------------------------------------------------ handleError
\* obj.key, undefined when obj has no such property.
Get(obj, key) == IF key \in DOMAIN obj THEN obj[key] ELSE Undefined

\* obj?.key
OptGet(obj, key) == IF obj \in {Undefined, Null} THEN Undefined ELSE Get(obj, key)

DefaultErrorMessage == "Une erreur est survenue"

\* String(value), which new Error(value) applies to its message: a string
\* as it is, a whole number in decimal digits.
StringOf(value) ==
    CASE value.t = "string" -> value.v
      [] value.t = "number" -> ToString(value.v)

\* Variant of HandleError: the failure's own message is preferred to the
\* texts of the server's answer.
HandleError_OwnMessageFirst(error) ==
    LET e1 == OptGet(Get(error, "error"), "error")
        e2 == OptGet(Get(error, "error"), "message")
        e3 == Get(error, "message")
    IN  IF error \in {Null, Undefined}
        THEN [name |-> "TypeError",
              message |-> Str("Cannot read properties of " \o error.t \o " (reading 'error')")]
        ELSE [message |-> Str(StringOf(IF Truthy(e3) THEN e3
                                       ELSE IF Truthy(e1) THEN e1
                                       ELSE IF Truthy(e2) THEN e2
                                       ELSE Str(DefaultErrorMessage)))]

\* What handleError ends with for the failure it is given: the Error it
\* rethrows, whose message is the chosen text as a string, or, for the
\* failure null or undefined, the TypeError of the read error.error at line
\* 379 (with the text V8 gives it).
HandleError(error) ==
    LET e1 == OptGet(Get(error, "error"), "error")
        e2 == OptGet(Get(error, "error"), "message")
        e3 == Get(error, "message")
    IN  IF error \in {Null, Undefined}
        THEN [name |-> "TypeError",
              message |-> Str("Cannot read properties of " \o error.t \o " (reading 'error')")]
        ELSE [message |-> Str(StringOf(IF Truthy(e1) THEN e1
                                       ELSE IF Truthy(e2) THEN e2
                                       ELSE IF Truthy(e3) THEN e3
                                       ELSE Str(DefaultErrorMessage)))]

\* Failures of GET /schedules: an answer whose body carries an error text,
\* an answer whose body carries a number in its place, an answer whose body
\* carries a message text only, a transport failure without a body, and a
\* failure without any text.
HttpErrors ==
    { [error |-> [error |-> Str("Token invalide"), message |-> Str("Non autorisé")],
       message |-> Str("Http failure response for /schedules: 401 Unauthorized")],
      [error |-> [error |-> Num(404)],
       message |-> Str("Http failure response for /schedules: 404 Not Found")],
      [error |-> [message |-> Str("Accès refusé")],
       message |-> Str("Http failure response for /schedules: 403 Forbidden")],
      [error |-> Null,
       message |-> Str("Http failure response for /schedules: 0 Unknown Error")],
      [error |-> Null, message |-> Str("")] }

\* ----------------------------------------------------- statistics inputs
StatsRecord(i, tid, tname, cid, cname, day, start, end) ==
    [id |-> i, teacher_id |-> tid, teacher_name |-> tname,
     class_id |-> cid, class_name |-> cname,
     day_of_week |-> day, start_time |-> start, end_time |-> end]

\* Records that differ from teacher 7 "Dupont", class 1 "6A", MONDAY in the
\* teacher, or in the class, or in the day; teacher 7 and class 1 come under
\* two names; a record lasts two hours (08:00-10:00), and for teacher 7 in
\* either class also 14 hours and 29 minutes (09:30-23:59), a number of
\* hours that no double holds exactly.
StatsTemplates ==
    { <<t[1], t[2], 1, "6A", "MONDAY", "08:00", "10:00">> :
        t \in {<<3, "Martin">>, <<7, "Dupont">>, <<7, "Martin">>} }
    \cup
    { <<7, "Dupont", c[1], c[2], "MONDAY", "08:00", "10:00">> :
        c \in {<<1, "5B">>, <<2, "5B">>} }
    \cup
    { <<7, "Dupont", c[1], c[2], "MONDAY", "09:30", "23:59">> :
        c \in {<<1, "6A">>, <<2, "5B">>} }
    \cup
    { <<7, "Dupont", 1, "6A", day, "08:00", "10:00">> : day \in {"SATURDAY", "SUNDAY"} }

InitStats ==
    /\ \E n \in 0..MaxStatsLen :
         \E f \in [1..n -> StatsTemplates] :
            serverSchedules =
                [i \in 1..n |-> StatsRecord(i, f[i][1], f[i][2], f[i][3], f[i][4],
                                            f[i][5], f[i][6], f[i][7])]
    /\ inFlight = 0
    /\ delivered = <<>>
    /\ GridIdle
    /\ realm = Builtins
    /\ ValidateIdle
    /\ DurationIdle
    /\ CatalogInit
    /\ AdminInit(0)

\* A caller subscribes to getScheduleStatistics(): getAllSchedules sends
\* GET /schedules.
GetScheduleStatistics ==
    /\ inFlight < MaxInFlight
    /\ inFlight' = inFlight + 1
    /\ UNCHANGED <<gridVars, realm, validateVars, serverSchedules,
                   delivered, durationVars, catalogVars>>
    /\ UNCHANGED adminVars

\* The notification that leaves the pipe for a fetched list: the statistics,
\* or, when a call has overwritten Object.values with a record, the
\* TypeError thrown at the call Object.values(teacherHours), caught by
\* catchError(handleError).
MapStatistics(objects, list) ==
    IF OrdinaryGet(objects, Id("Object", 0), "values").value # Ref(<<"Object", "values", 0>>)
    THEN [kind |-> "error",
          value |-> HandleError([message |-> Str("Object.values is not a function")])]
    ELSE [kind |-> "next", value |-> Statistics(list)]

\* The repository answers a request with its list: map computes the
\* statistics and the subscriber receives them.
HttpSuccess ==
    /\ inFlight > 0
    /\ inFlight' = inFlight - 1
    /\ delivered' = << MapStatistics(realm, serverSchedules) >>
    /\ UNCHANGED <<gridVars, realm, validateVars, serverSchedules,
                   durationVars, catalogVars>>
    /\ UNCHANGED adminVars

\* A request fails: catchError(handleError) of getAllSchedules rethrows,
\* map is skipped, catchError(handleError) of getScheduleStatistics
\* rethrows again and the subscriber receives the error.
HttpFailureWith(err) ==
    /\ inFlight > 0
    /\ inFlight' = inFlight - 1
    /\ delivered' = << [kind |-> "error", value |-> HandleError(HandleError(err))] >>
    /\ UNCHANGED <<gridVars, realm, validateVars, serverSchedules,
                   durationVars, catalogVars>>
    /\ UNCHANGED adminVars

HttpFailure == \E err \in HttpErrors : HttpFailureWith(err)

NextStats == GetScheduleStatistics \/ HttpSuccess \/ HttpFailure

SpecStats == InitStats /\ [][NextStats]_vars

\* ------------------------------------------ getTimeSlots, getDaysOfWeek
\* An element of a returned array is [ref |-> i], the very object at
\* position i of the service's array, or [own |-> entry], an object the
\* caller made.
IsRef(e) == "ref" \in DOMAIN e

\* [...arr]: a new array holding the same entry objects.
Spread(arr) == [i \in DOMAIN arr |-> [ref |-> i]]

\* The entries a caller reads in a returned array.
Contents(returned, base) ==
    [i \in DOMAIN returned |->
        IF IsRef(returned[i]) THEN base[returned[i].ref] ELSE returned[i].own]

GetTimeSlots ==
    /\ returnedSlots' = <<Spread(timeSlots)>>
    /\ UNCHANGED <<gridVars, realm, validateVars, statsVars, durationVars,
                   timeSlots, daysOfWeek, returnedDays, callerSteps>>
    /\ UNCHANGED adminVars

GetDaysOfWeek ==
    /\ returnedDays' = <<Spread(daysOfWeek)>>
    /\ UNCHANGED <<gridVars, realm, validateVars, statsVars, durationVars,
                   timeSlots, daysOfWeek, returnedSlots, callerSteps>>
    /\ UNCHANGED adminVars

\* What callers put into a returned catalog.
CallerSlot == [start_time |-> "07:00", end_time |-> "09:00", label |-> "07h00 - 09h00"]
CallerDay == [value |-> "SUNDAY", label |-> "Dimanche"]
SlotWrites == {<<"start_time", "07:00">>, <<"label", "matin">>}
DayWrites == {<<"value", "SUNDAY">>, <<"label", "Monday">>}

\* returned.push(entry), returned.pop(), returned[i] = entry by a caller.
ChangeArray(returned, entry) ==
    {Append(returned, [own |-> entry])}
    \cup {SubSeq(returned, 1, Len(returned) - 1) : i \in {1} \cap DOMAIN returned}
    \cup {[returned EXCEPT ![i] = [own |-> entry]] : i \in DOMAIN returned}

\* A caller adds, removes or replaces an entry of the array it got from
\* getTimeSlots.
CallerChangesSlotArray ==
    /\ callerSteps < MaxCallerSteps
    /\ returnedSlots # <<>>
    /\ \E a \in ChangeArray(returnedSlots[1], CallerSlot) : returnedSlots' = <<a>>
    /\ callerSteps' = callerSteps + 1
    /\ UNCHANGED <<gridVars, realm, validateVars, statsVars, durationVars,
                   timeSlots, daysOfWeek, returnedDays>>
    /\ UNCHANGED adminVars

\* A caller adds, removes or replaces an entry of the array it got from
\* getDaysOfWeek.
CallerChangesDayArray ==
    /\ callerSteps < MaxCallerSteps
    /\ returnedDays # <<>>
    /\ \E a \in ChangeArray(returnedDays[1], CallerDay) : returnedDays' = <<a>>
    /\ callerSteps' = callerSteps + 1
    /\ UNCHANGED <<gridVars, realm, validateVars, statsVars, durationVars,
                   timeSlots, daysOfWeek, returnedSlots>>
    /\ UNCHANGED adminVars

\* A caller assigns a field of an entry of the array it got from
\* getTimeSlots: returned[i].field = value. The entry is the service's own
\* object unless the caller put it there.
CallerWritesSlotField ==
    /\ callerSteps < MaxCallerSteps
    /\ returnedSlots # <<>>
    /\ \E i \in DOMAIN returnedSlots[1], w \in SlotWrites :
         LET e == returnedSlots[1][i]
         IN  IF IsRef(e)
             THEN /\ timeSlots' = [timeSlots EXCEPT ![e.ref][w[1]] = w[2]]
                  /\ UNCHANGED returnedSlots
             ELSE /\ returnedSlots' = <<[returnedSlots[1] EXCEPT ![i].own[w[1]] = w[2]]>>
                  /\ UNCHANGED timeSlots
    /\ callerSteps' = callerSteps + 1
    /\ UNCHANGED <<gridVars, realm, validateVars, statsVars, durationVars,
                   daysOfWeek, returnedDays>>
    /\ UNCHANGED adminVars

\* A caller assigns a field of an entry of the array it got from
\* getDaysOfWeek.
CallerWritesDayField ==
    /\ callerSteps < MaxCallerSteps
    /\ returnedDays # <<>>
    /\ \E i \in DOMAIN returnedDays[1], w \in DayWrites :
         LET e == returnedDays[1][i]
         IN  IF IsRef(e)
             THEN /\ daysOfWeek' = [daysOfWeek EXCEPT ![e.ref][w[1]] = w[2]]
                  /\ UNCHANGED returnedDays
             ELSE /\ returnedDays' = <<[returnedDays[1] EXCEPT ![i].own[w[1]] = w[2]]>>
                  /\ UNCHANGED daysOfWeek
    /\ callerSteps' = callerSteps + 1
    /\ UNCHANGED <<gridVars, realm, validateVars, statsVars, durationVars,
                   timeSlots, returnedSlots>>
    /\ UNCHANGED adminVars

\* Grids are built from one record list that stays inside the catalogs.
InitCatalog ==
    /\ schedules \in {<<>>, << GridRecord(1, "MONDAY", "08:00", "10:00") >>}
    /\ gridResult = <<>>
    /\ realm = Builtins
    /\ ValidateIdle
    /\ StatsIdle
    /\ DurationIdle
    /\ CatalogInit
    /\ AdminInit(0)

NextCatalog ==
    \/ GetTimeSlots
    \/ GetDaysOfWeek
    \/ CallerChangesSlotArray
    \/ CallerChangesDayArray
    \/ CallerWritesSlotField
    \/ CallerWritesDayField
    \/ FormatWeeklyGridCall

SpecCatalog == InitCatalog /\ [][NextCatalog]_vars

\* ------------------------------------------- calls of several operations
\* Day and start of the records of a list: a catalog cell, and the method
\* values of the function Object.
CallTemplates == {<<"MONDAY", "08:00">>, <<"constructor", "values">>}

\* One service instance whose callers build grids, validate a payload and
\* subscribe to the statistics of one repository list.
InitCalls ==
    /\ \E n \in 0..MaxGridLen :
         \E f \in [1..n -> CallTemplates] :
            schedules = [i \in 1..n |-> GridRecord(i, f[i][1], f[i][2], "10:00")]
    /\ gridResult = <<>>
    /\ realm = Builtins
    /\ scheduleData \in {[semester |-> Str("S1")], [semester |-> Str("S3")]}
    /\ validation = <<>>
    /\ serverSchedules \in
          {<<>>, << StatsRecord(1, 7, "Dupont", 1, "6A", "MONDAY", "08:00", "10:00") >>}
    /\ inFlight = 0
    /\ delivered = <<>>
    /\ DurationIdle
    /\ CatalogInit
    /\ AdminInit(0)

\* The service as a whole.
Init == InitGrid \/ InitValidate \/ InitStats \/ InitDuration \/ InitCatalog \/ InitCalls

Next ==
    \/ FormatWeeklyGridCall
    \/ ValidateScheduleDataCall
    \/ GetScheduleStatistics
    \/ HttpSuccess
    \/ HttpFailure
    \/ CalculateDurationCall
    \/ GetTimeSlots
    \/ GetDaysOfWeek

Spec == Init /\ [][Next]_vars

SpecCalls == InitCalls /\ [][Next]_vars

\* ------------------------------------------------------- AdminComponent
\* The lists with create, update and delete, named as the component's fields.
Kinds == {"teachers", "students", "classes"}

\* A repository call in flight; n is its rank among the calls sent.
Call(op, kind, arg, n) == [op |-> op, kind |-> kind, arg |-> arg, n |-> n]

\* ngOnInit: loadDashboardData(), loadClasses(), loadSubjects().
NgOnInit ==
    /\ ~ready
    /\ ready' = TRUE
    /\ loading' = TRUE
    /\ pageError' = Null
    /\ listLoading' = [listLoading EXCEPT !.classes = TRUE]
    /\ pending' = pending \cup {Call("getAdminDashboard", "", 0, issued + 1),
                                Call("getAll", "classes", 0, issued + 2),
                                Call("getAll", "subjects", 0, issued + 3)}
    /\ issued' = issued + 3
    /\ UNCHANGED <<serviceVars, destroyed, activeTab, dashboardData, lists, adminListVars,
                   modals, notifications, userBudget>>

\* ngOnDestroy, which Angular calls once, after ngOnInit: destroy$.next()
\* ends every subscription made so far, all of them piped through
\* takeUntil(destroy$), so none of their callbacks runs any more;
\* destroy$.complete() stops the subject, and a subscription made later is
\* never ended by it. The setTimeout callback of loadAdmins stays.
NgOnDestroy ==
    /\ ready
    /\ ~destroyed
    /\ destroyed' = TRUE
    /\ pending' = {}
    /\ UNCHANGED <<serviceVars, ready, activeTab, loading, pageError, dashboardData, lists,
                   listLoading, adminListVars, modals, issued, notifications, userBudget>>

\* setActiveTab(tabId): a tab whose list is empty loads it.
SetActiveTab(tabId) ==
    /\ ready
    /\ userBudget > 0
    /\ activeTab' = tabId
    /\ IF tabId \in Kinds /\ Len(lists[tabId]) = 0
       THEN /\ listLoading' = [listLoading EXCEPT ![tabId] = TRUE]
            /\ pending' = pending \cup {Call("getAll", tabId, 0, issued + 1)}
            /\ issued' = issued + 1
            /\ UNCHANGED <<adminsLoading, adminTimers>>
       ELSE IF tabId = "admins" /\ Len(admins) = 0
       THEN /\ adminsLoading' = TRUE
            /\ adminTimers' = adminTimers + 1
            /\ UNCHANGED <<listLoading, pending, issued>>
       ELSE UNCHANGED <<listLoading, pending, issued, adminsLoading, adminTimers>>
    /\ userBudget' = userBudget - 1
    /\ UNCHANGED <<serviceVars, ready, destroyed, loading, pageError, dashboardData, lists, admins,
                   modals, notifications>>

\* The two administrators loadAdmins installs.
MockAdmins ==
    << [id |-> 1, username |-> "admin1", full_name |-> "Jean Dupont"],
       [id |-> 2, username |-> "admin2", full_name |-> "Marie Martin"] >>

\* The setTimeout callback of loadAdmins runs.
AdminTimerFires ==
    /\ adminTimers > 0
    /\ adminTimers' = adminTimers - 1
    /\ admins' = MockAdmins
    /\ adminsLoading' = FALSE
    /\ UNCHANGED <<serviceVars, ready, destroyed, activeTab, loading, pageError, dashboardData, lists,
                   listLoading, modals, pending, issued, notifications, userBudget>>

\* The rows shown for a modal.
Rows(k) == IF k = "admins" THEN admins ELSE lists[k]

\* open<Kind>Modal(mode, entity): 'create' without an entity, 'edit' and
\* 'view' on a row of the list.
OpenModal(k, mode, data) ==
    /\ ready
    /\ userBudget > 0
    /\ IF mode = "create" THEN data = <<>>
       ELSE \E i \in DOMAIN Rows(k) : data = <<Rows(k)[i]>>
    /\ modals' = [modals EXCEPT ![k] = [isOpen |-> TRUE, mode |-> mode, data |-> data]]
    /\ userBudget' = userBudget - 1
    /\ UNCHANGED <<serviceVars, ready, destroyed, activeTab, loading, pageError, dashboardData, lists,
                   listLoading, adminListVars, pending, issued, notifications>>

\* close<Kind>Modal()
CloseModal(k) ==
    /\ modals[k].isOpen
    /\ userBudget > 0
    /\ modals' = [modals EXCEPT ![k].isOpen = FALSE]
    /\ userBudget' = userBudget - 1
    /\ UNCHANGED <<serviceVars, ready, destroyed, activeTab, loading, pageError, dashboardData, lists,
                   listLoading, adminListVars, pending, issued, notifications>>

\* list.findIndex(e => e.id === id), counted from 1; 0 when there is none.
FindIndex(list, id) ==
    IF \E i \in DOMAIN list : list[i].id = id
    THEN CHOOSE i \in DOMAIN list :
            /\ list[i].id = id
            /\ \A j \in DOMAIN list : list[j].id = id => i <= j
    ELSE 0

\* index = findIndex(by entity.id); if (index !== -1) list[index] = entity
ReplaceById(list, entity) ==
    LET index == FindIndex(list, entity.id)
    IN  IF index # 0 THEN [list EXCEPT ![index] = entity] ELSE list

\* list.filter(e => e.id !== id)
WithoutId(list, id) ==
    LET Keep(e) == e.id # id
    IN  SelectSeq(list, Keep)

\* saveAdmin() with the modal open: valid tells whether the form is valid,
\* username and full_name are read from the form.
SaveAdmin(valid, username, full_name) ==
    /\ modals.admins.isOpen
    /\ userBudget > 0
    /\ IF valid /\ modals.admins.mode = "create"
       THEN /\ admins' = Append(admins, [id |-> Len(admins) + 1, username |-> username,
                                          full_name |-> full_name])
            /\ modals' = [modals EXCEPT !.admins.isOpen = FALSE]
            /\ notifications' = [notifications EXCEPT !.success = @ + 1]
       ELSE IF valid /\ modals.admins.mode = "edit" /\ modals.admins.data # <<>>
       THEN /\ LET index == FindIndex(admins, modals.admins.data[1].id)
               IN  admins' = IF index # 0
                             THEN [admins EXCEPT ![index].full_name = full_name]
                             ELSE admins
            /\ modals' = [modals EXCEPT !.admins.isOpen = FALSE]
            /\ notifications' = [notifications EXCEPT !.success = @ + 1]
       ELSE UNCHANGED <<admins, modals, notifications>>
    /\ userBudget' = userBudget - 1
    /\ UNCHANGED <<serviceVars, ready, destroyed, activeTab, loading, pageError, dashboardData, lists,
                   listLoading, adminsLoading, adminTimers, pending, issued>>

\* deleteAdmin(admin) on a row of the list; confirmed is the answer to confirm().
DeleteAdmin(admin, confirmed) ==
    /\ ready
    /\ userBudget > 0
    /\ \E i \in DOMAIN admins : admins[i] = admin
    /\ IF confirmed
       THEN /\ admins' = WithoutId(admins, admin.id)
            /\ notifications' = [notifications EXCEPT !.success = @ + 1]
       ELSE UNCHANGED <<admins, notifications>>
    /\ userBudget' = userBudget - 1
    /\ UNCHANGED <<serviceVars, ready, destroyed, activeTab, loading, pageError, dashboardData, lists,
                   listLoading, adminsLoading, adminTimers, modals, pending, issued>>

\* What the user types into the admin form.
FormUsernames == {"admin3"}
FormNames == {"Paul Biya"}

InitAdmin(budget) ==
    /\ AdminInit(budget)
    /\ GridIdle
    /\ realm = Builtins
    /\ ValidateIdle
    /\ StatsIdle
    /\ DurationIdle
    /\ CatalogInit

\* The handlers of the administrators tab.
NextAdmins ==
    \/ NgOnInit
    \/ NgOnDestroy
    \/ SetActiveTab("admins")
    \/ AdminTimerFires
    \/ \E mode \in {"create", "edit", "view"} :
          \E data \in {<<>>} \cup {<<admins[i]>> : i \in DOMAIN admins} :
             OpenModal("admins", mode, data)
    \/ CloseModal("admins")
    \/ \E valid \in BOOLEAN, u \in FormUsernames, f \in FormNames : SaveAdmin(valid, u, f)
    \/ \E i \in DOMAIN admins, confirmed \in BOOLEAN : DeleteAdmin(admins[i], confirmed)

SpecAdmins == InitAdmin(MaxUserActions) /\ [][NextAdmins]_vars

\* refreshData(): loadDashboardData().
RefreshData ==
    /\ ready
    /\ userBudget > 0
    /\ loading' = TRUE
    /\ pageError' = Null
    /\ pending' = pending \cup {Call("getAdminDashboard", "", 0, issued + 1)}
    /\ issued' = issued + 1
    /\ userBudget' = userBudget - 1
    /\ UNCHANGED <<serviceVars, ready, destroyed, activeTab, dashboardData, lists, listLoading,
                   adminListVars, modals, notifications>>

\* saveTeacher(), saveStudent(), saveClass() with the modal open: valid
\* tells whether the form is valid.
Save(k, valid) ==
    /\ modals[k].isOpen
    /\ userBudget > 0
    /\ IF valid /\ modals[k].mode = "create"
       THEN /\ pending' = pending \cup {Call("create", k, 0, issued + 1)}
            /\ issued' = issued + 1
       ELSE IF valid /\ modals[k].mode = "edit" /\ modals[k].data # <<>>
       THEN /\ pending' = pending \cup {Call("update", k, modals[k].data[1].id, issued + 1)}
            /\ issued' = issued + 1
       ELSE UNCHANGED <<pending, issued>>
    /\ userBudget' = userBudget - 1
    /\ UNCHANGED <<serviceVars, ready, destroyed, activeTab, loading, pageError, dashboardData, lists,
                   listLoading, adminListVars, modals, notifications>>

\* deleteTeacher(e), deleteStudent(e), deleteClass(e) on a row of the list;
\* confirmed is the answer to confirm().
Delete(k, entity, confirmed) ==
    /\ ready
    /\ userBudget > 0
    /\ \E i \in DOMAIN lists[k] : lists[k][i] = entity
    /\ IF confirmed
       THEN /\ pending' = pending \cup {Call("delete", k, entity.id, issued + 1)}
            /\ issued' = issued + 1
       ELSE UNCHANGED <<pending, issued>>
    /\ userBudget' = userBudget - 1
    /\ UNCHANGED <<serviceVars, ready, destroyed, activeTab, loading, pageError, dashboardData, lists,
                   listLoading, adminListVars, modals, notifications>>

\* What the repository answers: the list of a kind, the entity a create
\* call made (its id is new), the entity an update call changed.
ServerList(kind) == << [id |-> 1, name |-> "a"] >>
Created(c) == [id |-> 10 + c.n, name |-> "a"]
Updated(c) == [id |-> c.arg, name |-> "b"]

\* The next callback of the subscription to call c runs.
Succeed(c) ==
    /\ c \in pending
    /\ LET chart == IF c.op = "getAdminDashboard"
                    THEN {Call("getAdminChartData", "", 0, issued + 1)}
                    ELSE {}
       IN  /\ pending' = (pending \ {c}) \cup chart
           /\ issued' = issued + Cardinality(chart)
    /\ loading' = IF c.op = "getAdminDashboard" THEN FALSE ELSE loading
    /\ dashboardData' =
          CASE c.op = "getAdminDashboard" -> [dashboardData EXCEPT !.admin = Str("data")]
            [] c.op = "getAdminChartData" -> [dashboardData EXCEPT !.chart = Str("data")]
            [] OTHER -> dashboardData
    /\ lists' =
          CASE c.op = "getAll" -> [lists EXCEPT ![c.kind] = ServerList(c.kind)]
            [] c.op = "create" -> [lists EXCEPT ![c.kind] = Append(@, Created(c))]
            [] c.op = "update" -> [lists EXCEPT ![c.kind] = ReplaceById(@, Updated(c))]
            [] c.op = "delete" -> [lists EXCEPT ![c.kind] = WithoutId(@, c.arg)]
            [] OTHER -> lists
    /\ listLoading' = IF c.op = "getAll" /\ c.kind \in Kinds
                      THEN [listLoading EXCEPT ![c.kind] = FALSE]
                      ELSE listLoading
    /\ modals' = IF c.op \in {"create", "update"}
                 THEN [modals EXCEPT ![c.kind].isOpen = FALSE]
                 ELSE modals
    /\ notifications' = IF c.op \in {"create", "update", "delete"}
                        THEN [notifications EXCEPT !.success = @ + 1]
                        ELSE notifications
    /\ UNCHANGED <<serviceVars, ready, destroyed, activeTab, pageError, adminListVars, userBudget>>

\* The error callbacks that call notificationService.error: all but those
\* of loadChartData, loadClasses and loadSubjects, which only log.
NotifiesError(c) ==
    \/ c.op \in {"getAdminDashboard", "create", "update", "delete"}
    \/ c.op = "getAll" /\ c.kind \in {"teachers", "students"}

\* A variant whose error callbacks of create and update close the modal.
Fail_ClosesModal(c) ==
    /\ c \in pending
    /\ pending' = pending \ {c}
    /\ pageError' = IF c.op = "getAdminDashboard" THEN Str("Http failure response") ELSE pageError
    /\ loading' = IF c.op = "getAdminDashboard" THEN FALSE ELSE loading
    /\ listLoading' = IF c.op = "getAll" /\ c.kind \in Kinds
                      THEN [listLoading EXCEPT ![c.kind] = FALSE]
                      ELSE listLoading
    /\ modals' = IF c.op \in {"create", "update"}
                 THEN [modals EXCEPT ![c.kind].isOpen = FALSE]
                 ELSE modals
    /\ notifications' = IF NotifiesError(c)
                        THEN [notifications EXCEPT !.error = @ + 1]
                        ELSE notifications
    /\ UNCHANGED <<serviceVars, ready, destroyed, activeTab, dashboardData, lists, adminListVars,
                   issued, userBudget>>

\* The error callback of the subscription to call c runs.
Fail(c) ==
    /\ c \in pending
    /\ pending' = pending \ {c}
    /\ pageError' = IF c.op = "getAdminDashboard" THEN Str("Http failure response") ELSE pageError
    /\ loading' = IF c.op = "getAdminDashboard" THEN FALSE ELSE loading
    /\ listLoading' = IF c.op = "getAll" /\ c.kind \in Kinds
                      THEN [listLoading EXCEPT ![c.kind] = FALSE]
                      ELSE listLoading
    /\ notifications' = IF NotifiesError(c)
                        THEN [notifications EXCEPT !.error = @ + 1]
                        ELSE notifications
    /\ UNCHANGED <<serviceVars, ready, destroyed, activeTab, dashboardData, lists, adminListVars,
                   modals, issued, userBudget>>

\* The handlers that call the repositories, and the answers.
NextRepository ==
    \/ NgOnInit
    \/ NgOnDestroy
    \/ \E k \in Kinds : SetActiveTab(k)
    \/ RefreshData
    \/ \E k \in Kinds, mode \in {"create", "edit"} :
          \E data \in {<<>>} \cup {<<lists[k][i]>> : i \in DOMAIN lists[k]} :
             OpenModal(k, mode, data)
    \/ \E k \in Kinds : CloseModal(k)
    \/ \E k \in Kinds, valid \in BOOLEAN : Save(k, valid)
    \/ \E k \in Kinds, confirmed \in BOOLEAN :
          \E i \in DOMAIN lists[k] : Delete(k, lists[k][i], confirmed)
    \/ \E c \in pending : Succeed(c)
    \/ \E c \in pending : Fail(c)

SpecRepository == InitAdmin(MaxRepositoryActions) /\ [][NextRepository]_vars

\* The modal handlers with the save calls and their answers.
NextModals ==
    \/ NgOnInit
    \/ NgOnDestroy
    \/ \E k \in Kinds, mode \in {"create", "edit"} :
          \E data \in {<<>>} \cup {<<lists[k][i]>> : i \in DOMAIN lists[k]} :
             OpenModal(k, mode, data)
    \/ \E k \in Kinds : CloseModal(k)
    \/ \E k \in Kinds, valid \in BOOLEAN : Save(k, valid)
    \/ \E c \in pending : Succeed(c)
    \/ \E c \in pending : Fail(c)

SpecModals == InitAdmin(MaxModalActions) /\ [][NextModals]_vars

\* -------------------------------------------- properties of the validator
Errors == validation[1].errors

Reported(msg) == \E i \in DOMAIN Errors : Errors[i] = msg

MissingZeroOrNegative(v) == v = Undefined \/ (v.t = "number" /\ v.v <= 0)

\* Minutes after midnight of the clock times of the payloads.
ClockMinutes(s) ==
    CASE s = "09:00" -> 540 [] s = "10:00" -> 600 [] s = "10:15" -> 615

\* C4: for class_id, teacher_id and subject_id independently, the field's
\* 'obligatoire' error is reported exactly when the key is present and its
\* value is missing, zero or negative; an absent key gives no error.
C4_RequiredIds ==
    validation # <<>> =>
        \A p \in {<<"class_id", MsgClass>>, <<"teacher_id", MsgTeacher>>,
                   <<"subject_id", MsgSubject>>} :
            Reported(p[2]) <=>
                (p[1] \in DOMAIN scheduleData
                    /\ MissingZeroOrNegative(scheduleData[p[1]]))

\* {class_id: 0} is invalid with the class error alone.
C4_Witness ==
    /\ scheduleData = [class_id |-> Num(0)]
    /\ validation = << [isValid |-> FALSE, errors |-> <<MsgClass>>] >>

\* C5: a payload with both start_time and end_time (zero-padded HH:MM) gets
\* the time-ordering error exactly when start_time is not strictly before
\* end_time; with either key absent the rule reports nothing.
C5_TimeOrdering ==
    validation # <<>> =>
        (Reported(MsgTime) <=>
            /\ "start_time" \in DOMAIN scheduleData
            /\ "end_time" \in DOMAIN scheduleData
            /\ ~(ClockMinutes(scheduleData["start_time"].v)
                   < ClockMinutes(scheduleData["end_time"].v)))

\* {start_time: "10:00", end_time: "10:00"} gets the time-ordering error.
C5_Witness ==
    /\ scheduleData = [start_time |-> Str("10:00"), end_time |-> Str("10:00")]
    /\ validation = << [isValid |-> FALSE, errors |-> <<MsgTime>>] >>

\* The rules as stated: a rule applies when its key is (both keys are) present.
ClassViolated ==
    "class_id" \in DOMAIN scheduleData /\ MissingZeroOrNegative(scheduleData["class_id"])
TeacherViolated ==
    "teacher_id" \in DOMAIN scheduleData /\ MissingZeroOrNegative(scheduleData["teacher_id"])
SubjectViolated ==
    "subject_id" \in DOMAIN scheduleData /\ MissingZeroOrNegative(scheduleData["subject_id"])
DayViolated ==
    /\ "day_of_week" \in DOMAIN scheduleData
    /\ scheduleData["day_of_week"] \notin {Str(d) : d \in CatalogDays}
TimeViolated ==
    /\ "start_time" \in DOMAIN scheduleData
    /\ "end_time" \in DOMAIN scheduleData
    /\ ~(ClockMinutes(scheduleData["start_time"].v)
           < ClockMinutes(scheduleData["end_time"].v))
YearViolated ==
    /\ "academic_year" \in DOMAIN scheduleData
    /\ scheduleData["academic_year"] # Str("2024-2025")
SemesterViolated ==
    /\ "semester" \in DOMAIN scheduleData
    /\ scheduleData["semester"] \notin {Str("S1"), Str("S2")}

ExpectedErrors ==
       Push(ClassViolated, MsgClass) \o Push(TeacherViolated, MsgTeacher)
    \o Push(SubjectViolated, MsgSubject) \o Push(DayViolated, MsgDay)
    \o Push(TimeViolated, MsgTime) \o Push(YearViolated, MsgYear)
    \o Push(SemesterViolated, MsgSemester)

\* C6: the error list holds exactly one message per violated rule, none for
\* a satisfied or non-applicable rule, in the order class, teacher, subject,
\* day, time, academic year, semester; isValid is true exactly when the list
\* is empty.
C6_AllRulesCollected ==
    validation # <<>> =>
        /\ Errors = ExpectedErrors
        /\ validation[1].isValid <=> (Errors = <<>>)

\* ------------------------------------------- properties of the statistics
HasStats == delivered # <<>> /\ delivered[1].kind = "next"

Stats == delivered[1].value

\* The double of a whole number of hours.
WholeNumber(n) == [neg |-> FALSE, mag |-> <<n, 0, 0, 0, 0, 0>>]

\* The double 14.483333333333333, the nearest one to 14 hours 29 minutes.
Hours14_29 == [neg |-> FALSE, mag |-> <<14, 506811, 768955, 768000, 0, 0>>]

\* Duration of a fetched record in hours.
HoursOf(r) ==
    CASE r.start_time = "08:00" /\ r.end_time = "10:00" -> WholeNumber(2)
      [] r.start_time = "09:30" /\ r.end_time = "23:59" -> Hours14_29

MinOf(S) == CHOOSE m \in S : \A k \in S : m <= k

\* The sum of the durations of the fetched records with index in I: the
\* durations added one after the other in the order of the list, each
\* addition being an addition of doubles.
RECURSIVE SumHours(_)
SumHours(I) ==
    IF I = {} THEN Zero
    ELSE LET i == MaxOf(I)
         IN  NumberAdd(SumHours(I \ {i}), HoursOf(serverSchedules[i]))

TeacherIds == {serverSchedules[i].teacher_id : i \in DOMAIN serverSchedules}
ClassIds == {serverSchedules[i].class_id : i \in DOMAIN serverSchedules}
OfTeacher(id) == {i \in DOMAIN serverSchedules : serverSchedules[i].teacher_id = id}
OfClass(id) == {i \in DOMAIN serverSchedules : serverSchedules[i].class_id = id}

\* The entry expected for an id: the name of the first record with the id
\* and the sum of the durations of all its records.
TeacherEntry(id) ==
    [teacher_name |-> serverSchedules[MinOf(OfTeacher(id))].teacher_name,
     hours_per_week |-> SumHours(OfTeacher(id))]
ClassEntry(id) ==
    [class_name |-> serverSchedules[MinOf(OfClass(id))].class_name,
     hours_per_week |-> SumHours(OfClass(id))]

\* C7: teacher_workload has exactly one entry per distinct teacher_id, with
\* the sum of the durations of that teacher's records as hours_per_week (the
\* durations added as doubles in the order of the list), and class_coverage
\* likewise per distinct class_id.
C7_OneEntryPerIdWithSum ==
    HasStats =>
        /\ Len(Stats.teacher_workload) = Cardinality(TeacherIds)
        /\ \E f \in [DOMAIN Stats.teacher_workload -> TeacherIds] :
              /\ \A i, j \in DOMAIN f : f[i] = f[j] => i = j
              /\ \A i \in DOMAIN f :
                    Stats.teacher_workload[i].hours_per_week = SumHours(OfTeacher(f[i]))
        /\ Len(Stats.class_coverage) = Cardinality(ClassIds)
        /\ \E f \in [DOMAIN Stats.class_coverage -> ClassIds] :
              /\ \A i, j \in DOMAIN f : f[i] = f[j] => i = j
              /\ \A i \in DOMAIN f :
                    Stats.class_coverage[i].hours_per_week = SumHours(OfClass(f[i]))

\* Two records of teacher 7 "Dupont" lasting 2 hours and 14 hours 29 minutes
\* give the single entry of 16.483333333333334 hours.
C7_Witness ==
    /\ HasStats
    /\ Len(serverSchedules) = 2
    /\ \A i \in 1..2 : serverSchedules[i].teacher_id = 7
                        /\ serverSchedules[i].teacher_name = "Dupont"
    /\ serverSchedules[1].end_time = "10:00"
    /\ serverSchedules[2].end_time = "23:59"
    /\ Stats.teacher_workload =
          << [teacher_name |-> "Dupont",
              hours_per_week |-> [neg |-> FALSE, mag |-> <<16, 506811, 768955, 770048, 0, 0>>]] >>

\* The k-th id of S in the order given by the ranking function pos.
AtRank(S, pos(_), k) ==
    CHOOSE id \in S : Cardinality({x \in S : pos(x) <= pos(id)}) = k

FirstOfTeacher(id) == MinOf(OfTeacher(id))
FirstOfClass(id) == MinOf(OfClass(id))
Itself(id) == id

\* C8 as stated: the entries of teacher_workload and of class_coverage come
\* in the order in which each id first appears in the input list.
C8_FirstAppearanceOrder ==
    HasStats =>
        /\ Stats.teacher_workload =
              [k \in 1..Cardinality(TeacherIds) |->
                  TeacherEntry(AtRank(TeacherIds, FirstOfTeacher, k))]
        /\ Stats.class_coverage =
              [k \in 1..Cardinality(ClassIds) |->
                  ClassEntry(AtRank(ClassIds, FirstOfClass, k))]

\* C8 amended: the entries of teacher_workload and of class_coverage come in
\* ascending numeric order of teacher_id and class_id, whatever the order in
\* which the ids first appear in the input list.
C8_AscendingIdOrder ==
    HasStats =>
        /\ Stats.teacher_workload =
              [k \in 1..Cardinality(TeacherIds) |->
                  TeacherEntry(AtRank(TeacherIds, Itself, k))]
        /\ Stats.class_coverage =
              [k \in 1..Cardinality(ClassIds) |->
                  ClassEntry(AtRank(ClassIds, Itself, k))]

\* The first record has teacher 7 "Dupont", the second teacher 3 "Martin";
\* the entry of teacher 3 comes first.
C8_Witness ==
    /\ HasStats
    /\ Len(serverSchedules) = 2
    /\ serverSchedules[1].teacher_id = 7 /\ serverSchedules[1].teacher_name = "Dupont"
    /\ serverSchedules[2].teacher_id = 3 /\ serverSchedules[2].teacher_name = "Martin"
    /\ Stats.teacher_workload[1].teacher_name = "Martin"
    /\ Stats.teacher_workload[2].teacher_name = "Dupont"

\* C9: the entry of an id carries the name of the first record with that id
\* in input order; later records with the id never change the name.
C9_FirstNameKept ==
    HasStats =>
        /\ \A k \in DOMAIN Stats.teacher_workload :
              Stats.teacher_workload[k].teacher_name =
                  serverSchedules[FirstOfTeacher(AtRank(TeacherIds, Itself, k))].teacher_name
        /\ \A k \in DOMAIN Stats.class_coverage :
              Stats.class_coverage[k].class_name =
                  serverSchedules[FirstOfClass(AtRank(ClassIds, Itself, k))].class_name

\* Teacher 7 is "Dupont" in the first record and "Martin" in the second:
\* the single entry is named "Dupont" and has the hours of both.
C9_Witness ==
    /\ HasStats
    /\ Len(serverSchedules) = 2
    /\ serverSchedules[1].teacher_id = 7 /\ serverSchedules[1].teacher_name = "Dupont"
    /\ serverSchedules[2].teacher_id = 7 /\ serverSchedules[2].teacher_name = "Martin"
    /\ Len(Stats.teacher_workload) = 1
    /\ Stats.teacher_workload[1].teacher_name = "Dupont"
    /\ Stats.teacher_workload[1].hours_per_week = SumHours({1, 2})

\* C10: total_schedules is the length of the fetched list and
\* schedules_by_day has exactly the six catalog weekdays as keys, each with
\* the number of records of that day, 0 when there is none.
C10_TotalAndByDay ==
    HasStats =>
        /\ Stats.total_schedules = Len(serverSchedules)
        /\ DOMAIN Stats.schedules_by_day = CatalogDays
        /\ \A d \in CatalogDays :
              Stats.schedules_by_day[d] =
                  Cardinality({i \in DOMAIN serverSchedules :
                                  serverSchedules[i].day_of_week = d})

\* Two MONDAY records and one SUNDAY record: total 3, MONDAY 2, the five
\* other weekdays 0.
C10_Witness ==
    /\ HasStats
    /\ Len(serverSchedules) = 3
    /\ serverSchedules[1].day_of_week = "MONDAY"
    /\ serverSchedules[2].day_of_week = "SUNDAY"
    /\ serverSchedules[3].day_of_week = "MONDAY"
    /\ Stats.total_schedules = 3
    /\ Stats.schedules_by_day["MONDAY"] = 2
    /\ \A d \in CatalogDays \ {"MONDAY"} : Stats.schedules_by_day[d] = 0

\* -------------------------------------------- properties of the durations
\* Minutes after midnight of a zero-padded clock time.
MinutesOfDay(s) ==
    CASE s = "00:00" -> 0    [] s = "08:00" -> 480  [] s = "09:00" -> 540
      [] s = "09:30" -> 570  [] s = "10:00" -> 600  [] s = "10:15" -> 615
      [] s = "11:15" -> 675  [] s = "12:15" -> 735  [] s = "14:00" -> 840
      [] s = "16:00" -> 960  [] s = "16:15" -> 975  [] s = "18:15" -> 1095
      [] s = "23:59" -> 1439

\* d is the double of minutes / 60: a positive number of at most
\* SignificandBits significant bits with 60 * d no further from minutes than
\* 60 halves of the unit of d's last bit, and equal to it when d has bits to
\* spare.
IsSixtiethOf(d, minutes) ==
    LET drop == MagBits(d.mag) - SignificandBits
        last == 6 - drop \div LimbBits
        unit == 2^(drop % LimbBits)
        sixty == Carry([i \in 1..6 |-> 60 * d.mag[i]])
        exact == <<minutes, 0, 0, 0, 0, 0>>
        diff == IF MagLess(sixty, exact) THEN MagSub(exact, sixty) ELSE MagSub(sixty, exact)
    IN  /\ ~d.neg
        /\ drop <= 0 => diff = NoMag
        /\ drop > 0 => /\ \A i \in (last + 1)..6 : d.mag[i] = 0
                       /\ d.mag[last] % unit = 0
                       /\ ~MagLess(Carry([i \in 1..6 |-> IF i = last THEN 30 * unit ELSE 0]), diff)

\* C11: for zero-padded HH:MM times with the start before the end,
\* calculateDuration returns the elapsed minutes divided by 60, fractional
\* hours included (the double nearest to the quotient); 10:15 to 12:15 and
\* 08:00 to 10:00 are both 2 hours and every catalog slot lasts exactly
\* 2 hours.
C11_DurationInHours ==
    /\ (durationResult # <<>> /\ MinutesOfDay(argStart) < MinutesOfDay(argEnd)) =>
            IsSixtiethOf(durationResult[1], MinutesOfDay(argEnd) - MinutesOfDay(argStart))
    /\ (durationResult # <<>> /\ <<argStart, argEnd>> \in {<<"10:15", "12:15">>, <<"08:00", "10:00">>}) =>
            durationResult[1] = WholeNumber(2)
    /\ \A i \in DOMAIN TIME_SLOTS :
            CalculateDuration(TIME_SLOTS[i].start_time, TIME_SLOTS[i].end_time) = WholeNumber(2)

\* calculateDuration("10:00", "10:15") returned a quarter of an hour, 0.25.
C11_Witness ==
    /\ argStart = "10:00" /\ argEnd = "10:15"
    /\ durationResult = << [neg |-> FALSE, mag |-> <<0, Limb \div 4, 0, 0, 0, 0>>] >>

\* ------------------------------------ properties of calls made in sequence
\* C12: the grid builder and the statistics aggregator carry no state from
\* one call to the next: a call answers as the previous call with the same
\* input did, whatever other service calls (grids, validations, statistics
\* requests) happened before or in between.
C12_SameInputSameOutput ==
    /\ [][(FormatWeeklyGridCall /\ gridResult # <<>>) => gridResult' = gridResult]_vars
    /\ [][(HttpSuccess /\ HasStats) => delivered' = delivered]_vars

\* ------------------------------------------ records outside the catalogs
InCatalogs(r) == r.day_of_week \in CatalogDays /\ r.start_time \in CatalogStarts

\* C13: a record whose day is not a catalog weekday or whose start is not a
\* catalog slot start is left out without error: formatWeeklyGrid returns
\* the grid it returns for the list with such records removed.
C13_OutsideCatalogIgnored ==
    gridResult # <<>> =>
        gridResult[1] = FormatWeeklyGrid(Builtins, SelectSeq(schedules, InCatalogs)).grid

\* ------------------------------------ day, academic year and semester rules
\* C14: when day_of_week is present the invalid-weekday error is reported
\* exactly when the value is not one of the six catalog weekdays ("SUNDAY",
\* a lower-case name and the empty string are all errors); when the key is
\* absent the rule reports nothing.
C14_DayRule ==
    validation # <<>> => (Reported(MsgDay) <=> DayViolated)

\* {day_of_week: ""} is invalid with the weekday error alone.
C14_Witness ==
    /\ scheduleData = [day_of_week |-> Str("")]
    /\ validation = << [isValid |-> FALSE, errors |-> <<MsgDay>>] >>

\* C15: when academic_year is present the format error is reported exactly
\* when the value is not four digits, a dash, four digits, for every string
\* value including the empty string.
C15_YearRule ==
    validation # <<>> => (Reported(MsgYear) <=> YearViolated)

\* C16: when semester is present the error is reported exactly when the
\* value is neither "S1" nor "S2", the empty string and lower-case "s1"
\* included.
C16_SemesterRule ==
    validation # <<>> => (Reported(MsgSemester) <=> SemesterViolated)

\* ------------------------------------------------- failure of the fetch
\* The text a failure is normalized to: the error text of the server's
\* answer, else its message text, else the failure's own message, else the
\* default.
NormalizedText(err) ==
    CASE err.error # Null /\ "error" \in DOMAIN err.error ->
              IF err.error.error = Num(404) THEN "404" ELSE err.error.error.v
      [] err.error # Null /\ "error" \notin DOMAIN err.error -> err.error.message.v
      [] err.error = Null /\ err.message.v # "" -> err.message.v
      [] OTHER -> "Une erreur est survenue"

\* C17: when the fetch fails, the subscriber of getScheduleStatistics gets
\* no statistics but one error, whose message is the normalized message
\* that getAllSchedules delivers (the second normalization leaves it
\* unchanged), and the request is not sent again.
C17_FailureDeliveredOnce ==
    [][\A err \in HttpErrors :
          HttpFailureWith(err) =>
              /\ delivered' = << [kind |-> "error",
                                  value |-> [message |-> Str(NormalizedText(err))]] >>
              /\ delivered'[1].value = HandleError(err)
              /\ inFlight' = inFlight - 1]_vars

\* The answer 401 with the body text "Token invalide" reached the
\* subscriber as that text and no request is left.
C17_Witness ==
    /\ delivered = << [kind |-> "error", value |-> [message |-> Str("Token invalide")]] >>
    /\ inFlight = 0
    /\ Len(serverSchedules) > 0

\* --------------------------------------------- the catalogs stay the same
\* The grid of the catalog weekdays and slot starts for the input list.
GridOfOriginals ==
    [d \in CatalogDays |->
        [s \in CatalogStarts |->
            IF Falling(d, s) = {} THEN Null ELSE schedules[MaxOf(Falling(d, s))]]]

\* C18: after any service calls and any caller actions on catalogs returned
\* earlier (adding, removing, replacing entries of a returned array,
\* changing a field of a returned entry), getDaysOfWeek returns the original
\* six weekdays and getTimeSlots the original four slots, in order and with
\* their field values, and formatWeeklyGrid builds its grid from them.
C18_CatalogsFixed ==
    /\ [][GetTimeSlots => Contents(returnedSlots'[1], timeSlots') = TIME_SLOTS]_vars
    /\ [][GetDaysOfWeek => Contents(returnedDays'[1], daysOfWeek') = DAYS_OF_WEEK]_vars
    /\ [][FormatWeeklyGridCall => gridResult'[1] = GridOfOriginals]_vars

\* ------------------------------------------- properties of the admin list
\* C20: after any sequence of admin creations, deletions and loads, no two
\* entries of the admins list have the same id.
C20_AdminIdsDistinct ==
    \A i, j \in DOMAIN admins : admins[i].id = admins[j].id => i = j

\* --------------------------------------- failures of the repository calls
\* C19: every failed repository call of the admin component (loading the
\* dashboard, the chart data, the classes, subjects, teachers and students,
\* and every create, update and delete of a teacher, student or class)
\* results in exactly one error notification.
C19_OneErrorNotificationPerFailure ==
    [][\A c \in pending :
          Fail(c) => /\ notifications'.error = notifications.error + 1
                     /\ notifications'.success = notifications.success]_vars

\* ------------------------------------ created admins and the delayed load
\* The entry that saveAdmin made in create mode: its username is one typed
\* into the form (the two mock administrators are admin1 and admin2).
CreatedAdmin(a) == a.username \in FormUsernames

\* C21: an administrator added by saveAdmin in create mode stays in the
\* admins list until deleteAdmin removes it: every step other than a
\* confirmed deleteAdmin keeps each created entry, whatever the interleaving
\* with the timers of loadAdmins.
C21_CreatedAdminStays ==
    [][\A i \in DOMAIN admins :
          CreatedAdmin(admins[i]) =>
              \/ \E j \in DOMAIN admins' :
                    /\ admins'[j].id = admins[i].id
                    /\ admins'[j].username = admins[i].username
              \/ \E k \in DOMAIN admins : DeleteAdmin(admins[k], TRUE)]_vars

\* ------------------------------------- lists change on success responses
WriteOps == {"create", "update", "delete"}

\* The first place of list with the id, 0 when there is none.
FirstWithId(list, id) ==
    IF \A i \in DOMAIN list : list[i].id # id THEN 0
    ELSE MinOf({i \in DOMAIN list : list[i].id = id})

\* The list a success response of the write call c leaves behind.
AfterSuccess(c, list) ==
    CASE c.op = "create" -> list \o <<Created(c)>>
      [] c.op = "update" ->
            [i \in DOMAIN list |->
                IF i = FirstWithId(list, c.arg) THEN Updated(c) ELSE list[i]]
      [] c.op = "delete" ->
            LET Other(e) == e.id # c.arg IN SelectSeq(list, Other)

\* C22: for teachers, students and classes, the local list changes only in
\* the step in which a success response arrives; the success response of a
\* create appends the new entity, of an update replaces the entry with the
\* same id, of a delete removes the entry with that id, and leaves the lists
\* of the other kinds alone; a failure response of a create, update or
\* delete leaves every list and every modal (open, mode, data) unchanged.
C22_ListChangesOnSuccessOnly ==
    [][/\ \A k \in Kinds :
             lists'[k] # lists[k] => \E c \in pending : c.kind = k /\ Succeed(c)
       /\ \A c \in pending :
             c.op \in WriteOps =>
                /\ Succeed(c) =>
                      /\ lists'[c.kind] = AfterSuccess(c, lists[c.kind])
                      /\ \A k \in Kinds \ {c.kind} : lists'[k] = lists[k]
                /\ Fail(c) => lists' = lists /\ modals' = modals]_vars

\* The update of class 1 succeeded: the list holds the updated class in
\* the place of the loaded one, and the call is no longer pending.
C22_Witness ==
    /\ lists.classes = << Updated(Call("update", "classes", 1, 4)) >>
    /\ Call("update", "classes", 1, 4) \notin pending
    /\ issued = 4
    /\ notifications = [error |-> 0, success |-> 1]

\* ------------------------------------------ a modal opened again meanwhile
\* The modal of the call's kind is open on another session than the one
\* that issued the save call c: a create call was issued in create mode, an
\* update call in edit mode on the entity with the call's id, and mode and
\* data only change when the modal is opened.
OtherSessionOpen(c) ==
    /\ c.op \in {"create", "update"}
    /\ modals[c.kind].isOpen
    /\ \/ c.op = "create" /\ modals[c.kind].mode # "create"
       \/ c.op = "update" /\ modals[c.kind].mode # "edit"
       \/ c.op = "update" /\ modals[c.kind].data # <<>>
                          /\ modals[c.kind].data[1].id # c.arg

\* C23: when a teacher, student or class modal was closed and opened again
\* while a save of the earlier modal session is in flight, the success
\* response of that save leaves the newly opened modal as it is.
C23_LateSuccessKeepsNewModal ==
    [][\A c \in pending :
          (OtherSessionOpen(c) /\ Succeed(c)) => modals'[c.kind] = modals[c.kind]]_vars

\* ------------------------------------------- loading flags and load calls
\* A load request for the lists of kind k is in flight.
LoadInFlight(k) == \E c \in pending : c.op = "getAll" /\ c.kind = k

\* C24: in every reachable state, teachersLoading, studentsLoading and
\* classesLoading are true whenever a load request for that entity type is
\* still in flight.
C24_LoadingWhileInFlight ==
    \A k \in Kinds : LoadInFlight(k) => listLoading[k]

\* ------------------------------------------------ sums of the statistics
\* Sum of hours_per_week over the entries of a list, added as doubles from
\* the first entry to the last.
RECURSIVE SumHoursPerWeek(_)
SumHoursPerWeek(entries) ==
    IF entries = <<>> THEN Zero
    ELSE NumberAdd(SumHoursPerWeek(SubSeq(entries, 1, Len(entries) - 1)),
                   entries[Len(entries)].hours_per_week)

\* Every fetched record starts before it ends.
AllForward ==
    \A i \in DOMAIN serverSchedules :
        MinutesOfDay(serverSchedules[i].start_time) < MinutesOfDay(serverSchedules[i].end_time)

\* Every fetched record lasts a whole number of hours.
AllWholeHours ==
    \A i \in DOMAIN serverSchedules :
        (MinutesOfDay(serverSchedules[i].end_time)
            - MinutesOfDay(serverSchedules[i].start_time)) % 60 = 0

IsPositive(d) == ~d.neg /\ d.mag # NoMag

\* The distance of two doubles that are both zero or more.
Distance(a, b) == IF MagLess(a.mag, b.mag) THEN MagSub(b.mag, a.mag) ELSE MagSub(a.mag, b.mag)

\* n * 2^-51 * total, rounded down to a multiple of 2^-60 (the fourth
\* limb): the most that
\* two sums of the same n doubles, all above zero, can differ by when they
\* add them in different groupings, each addition rounding to the nearest
\* double (each sum differs from the exact one by at most
\* (n - 1) * 2^-53 / (1 - (n - 1) * 2^-53) times the exact one).
RoundingBound(n, total) ==
    Carry(<<0, 0, 0, n * (512 * total.mag[1] + total.mag[2] \div 2048), 0, 0>>)

\* The doubles a and b, both zero or more, differ by no more than bound.
Within(a, b, bound) == ~MagLess(bound, Distance(a, b))

\* C25 as stated: in the statistics of a fetched list whose records all
\* start before they end, the hours_per_week of the teacher_workload entries
\* and those of the class_coverage entries both add up to the sum of the
\* durations of all records, and every entry's hours_per_week is greater
\* than zero.
C25_HoursAddUp ==
    (HasStats /\ AllForward) =>
        /\ SumHoursPerWeek(Stats.teacher_workload) = SumHours(DOMAIN serverSchedules)
        /\ SumHoursPerWeek(Stats.class_coverage) = SumHours(DOMAIN serverSchedules)
        /\ \A i \in DOMAIN Stats.teacher_workload : IsPositive(Stats.teacher_workload[i].hours_per_week)
        /\ \A i \in DOMAIN Stats.class_coverage : IsPositive(Stats.class_coverage[i].hours_per_week)

\* C25 amended: in the statistics of a fetched list of n records that all
\* start before they end, every entry's hours_per_week is greater than
\* zero; the sum of the teacher_workload entries, the sum of the
\* class_coverage entries and the sum of the durations of all records are
\* equal when every record lasts a whole number of hours, and otherwise any
\* two of the three differ by no more than n * 2^-51 times the sum of the
\* durations.
C25_HoursAddUpWithinRounding ==
    (HasStats /\ AllForward) =>
        LET total == SumHours(DOMAIN serverSchedules)
            byTeacher == SumHoursPerWeek(Stats.teacher_workload)
            byClass == SumHoursPerWeek(Stats.class_coverage)
            bound == RoundingBound(Len(serverSchedules), total)
        IN  /\ \A i \in DOMAIN Stats.teacher_workload :
                  IsPositive(Stats.teacher_workload[i].hours_per_week)
            /\ \A i \in DOMAIN Stats.class_coverage :
                  IsPositive(Stats.class_coverage[i].hours_per_week)
            /\ Within(byTeacher, total, bound)
            /\ Within(byClass, total, bound)
            /\ Within(byTeacher, byClass, bound)
            /\ AllWholeHours => byTeacher = total /\ byClass = total /\ byTeacher = byClass

\* Teacher 3 has the first record of 2 hours, teacher 7 the two others of
\* 14 hours 29 minutes each, all of class 1: 2 and 28.966666666666665 hours
\* by teacher, which add up to 30.966666666666665, and 30.96666666666667
\* hours for the class.
C25_Witness ==
    /\ HasStats
    /\ Len(serverSchedules) = 3
    /\ serverSchedules[1].teacher_id = 3
    /\ serverSchedules[2].teacher_id = 7
    /\ serverSchedules[3].teacher_id = 7
    /\ Stats.teacher_workload =
          << [teacher_name |-> "Martin", hours_per_week |-> WholeNumber(2)],
             [teacher_name |-> "Dupont",
              hours_per_week |-> [neg |-> FALSE, mag |-> <<28, 1013623, 489335, 487424, 0, 0>>]] >>
    /\ Stats.class_coverage =
          << [class_name |-> "6A",
              hours_per_week |-> [neg |-> FALSE, mag |-> <<30, 1013623, 489335, 491520, 0, 0>>]] >>
    /\ SumHoursPerWeek(Stats.teacher_workload) # SumHoursPerWeek(Stats.class_coverage)

\* ------------------------------------------- per-day counts and the total
\* Sum of the counts of schedules_by_day over the keys in D.
RECURSIVE SumCounts(_, _)
SumCounts(byDay, D) ==
    IF D = {} THEN 0
    ELSE LET d == CHOOSE x \in D : TRUE
         IN  byDay[d] + SumCounts(byDay, D \ {d})

\* The fetched records whose day is not a catalog weekday.
Unrecognized == {i \in DOMAIN serverSchedules : serverSchedules[i].day_of_week \notin CatalogDays}

\* The places of an id's entry in teacher_workload and in class_coverage.
TeacherPlace(id) == Cardinality({t \in TeacherIds : t <= id})
ClassPlace(id) == Cardinality({c \in ClassIds : c <= id})

\* C26: the six schedules_by_day counts add up to at most total_schedules,
\* and to exactly total_schedules when and only when every record's
\* day_of_week is a catalog weekday; a record with another day is counted
\* in total_schedules and in the hours of its teacher and of its class, but
\* in no per-day count.
C26_ByDayWithinTotal ==
    HasStats =>
        LET byDay == Stats.schedules_by_day
            sum == SumCounts(byDay, DOMAIN byDay)
        IN  /\ Cardinality(DOMAIN byDay) = 6
            /\ sum <= Stats.total_schedules
            /\ (sum = Stats.total_schedules) <=> (Unrecognized = {})
            /\ Stats.total_schedules = Len(serverSchedules)
            /\ sum = Len(serverSchedules) - Cardinality(Unrecognized)
            /\ \A i \in Unrecognized :
                  /\ serverSchedules[i].day_of_week \notin DOMAIN byDay
                  /\ Stats.teacher_workload[TeacherPlace(serverSchedules[i].teacher_id)].hours_per_week
                        = SumHours(OfTeacher(serverSchedules[i].teacher_id))
                  /\ Stats.class_coverage[ClassPlace(serverSchedules[i].class_id)].hours_per_week
                        = SumHours(OfClass(serverSchedules[i].class_id))

\* A SATURDAY record and a SUNDAY record of teacher 7 and class 1: total 2,
\* SATURDAY 1 and no other count, 4 hours for the teacher and for the class.
C26_Witness ==
    /\ HasStats
    /\ Len(serverSchedules) = 2
    /\ serverSchedules[1].day_of_week = "SATURDAY"
    /\ serverSchedules[2].day_of_week = "SUNDAY"
    /\ Stats.total_schedules = 2
    /\ SumCounts(Stats.schedules_by_day, DOMAIN Stats.schedules_by_day) = 1
    /\ Stats.schedules_by_day["SATURDAY"] = 1
    /\ Stats.teacher_workload = << [teacher_name |-> "Dupont", hours_per_week |-> WholeNumber(4)] >>
    /\ Stats.class_coverage = << [class_name |-> "6A", hours_per_week |-> WholeNumber(4)] >>

====
